---------------------------- MODULE Spec2Model ----------------------------
(***************************************************************************)
(* Model of the ds6 device control plane (src/ds/ds6/ds6-device.cpp):      *)
(* the locked firmware command channel, option registration by firmware    *)
(* version and capability, the option decorators, the lazy calibration     *)
(* values and the depth sensor's open.                                     *)
(*                                                                         *)
(* The classes the device file only uses (locked_transfer, hw_monitor,     *)
(* group_multiple_fw_calls, gated_option, auto_disabling_control,          *)
(* hdr_conditional_option, hdr_option / hdr_config, lazy<T>,               *)
(* firmware_version) live in other files of the repository; they are       *)
(* modelled from the design document and marked so in MODEL_MAP.json.      *)
(***************************************************************************)
EXTENDS Integers, Sequences, FiniteSets, TLC

VARIABLES
    fw,        \* _fw_version: <<major, minor, patch, build>>
    gvd,       \* the GVD blob's capability bytes
    pid,       \* _pid
    experimental, \* _fw_version.experimental()
    registry,  \* the depth sensor's options: id -> option
    hw,        \* the camera's registers: [AE, EXPOSURE, GAIN, ALWAYS_ON, ON_OFF, HDR_FW]
    hdr,       \* hdr_config (the HDR coordinator): [enabled, id, exposure, gain]
    last,      \* the last call made through the option registry
    advanced,  \* advanced_mode, as is_camera_in_advanced_mode answered
    hw_monitor, \* whether _hw_monitor has been created
    ready,     \* whether the constructor has returned the device
    pc,        \* where each thread is in the call it is making
    initIdx,   \* the next firmware command of init's grouped block
    owner,     \* the thread holding the exclusive firmware session, 0 if free
    depth,     \* how many times the owner has entered the session
    inflight,  \* the threads whose command is at the transport
    outcome,   \* how each thread's last call ended
    call,      \* the call each thread is making: [opt, val]
    stack,     \* the lazy values each thread is dereferencing, innermost last
    seen,      \* the lazy value each thread was last handed: [lazy, val]
    cache,     \* each lazy value's cached result, 0 if not evaluated
    mutex,     \* the thread inside each lazy value's mutex, 0 if free
    calls,     \* how many times each lazy value's factory was invoked
    fails,     \* how many of these invocations failed
    fetches    \* the firmware fetches each lazy value's factory has made

cfgVars == <<fw, gvd, pid, experimental, registry>>
optVars == <<hw, hdr, last>>
lockVars == <<advanced, hw_monitor, ready, pc, initIdx, owner, depth, inflight, outcome>>
lazyVars == <<stack, seen, cache, mutex, calls, fails, fetches>>
vars == <<fw, gvd, pid, experimental, registry, hw, hdr, last,
          advanced, hw_monitor, ready, pc, initIdx, owner, depth, inflight, outcome,
          call, stack, seen, cache, mutex, calls, fails, fetches>>

-----------------------------------------------------------------------------
(* Bounds of the model *)

\* exposure and gain take the values 1..MaxVal
MaxVal == 2
\* the threads calling into one device
NThreads == 2

\* the factory invocations that may fail in one run
MaxFails == 1

Threads == 1..NThreads

-----------------------------------------------------------------------------
(* firmware_version: ordered 4-tuple, compared lexicographically *)

\* every component of a at least that of b
VerGE_componentwise(a, b) == \A i \in 1..4 : a[i] >= b[i]

VerGE(a, b) ==
    \/ a[1] > b[1]
    \/ a[1] = b[1] /\ a[2] > b[2]
    \/ a[1] = b[1] /\ a[2] = b[2] /\ a[3] > b[3]
    \/ a[1] = b[1] /\ a[2] = b[2] /\ a[3] = b[3] /\ a[4] >= b[4]

\* minimal firmware version in which hdr feature is supported
hdr_firmware_version == <<5, 12, 8, 100>>
caps_firmware_version == <<5, 10, 4, 0>>
emitter_firmware_version == <<5, 11, 3, 0>>
emitter_always_on_firmware_version == <<5, 12, 1, 0>>

-----------------------------------------------------------------------------
(* d400_caps and parse_device_capabilities *)

I2C_IMU_BMI055_ID_ACC == 250
I2C_IMU_BMI085_ID_ACC == 31
hid_bmi_055_pid == {"RS435I", "RS430I"}
hid_bmi_085_pid == {"RS465", "RS455"}

RECURSIVE BitAnd(_, _)
BitAnd(a, b) ==
    IF a = 0 \/ b = 0 THEN 0
    ELSE (IF a % 2 = 1 /\ b % 2 = 1 THEN 1 ELSE 0) + 2 * BitAnd(a \div 2, b \div 2)

\* the flags of the parse before toggled instead of a fresh value being or-ed into
parse_device_capabilities_toggling(g, p) ==
    { c \in {"CAP_ACTIVE_PROJECTOR", "CAP_IMU_SENSOR", "CAP_ROLLING_SHUTTER",
              "CAP_GLOBAL_SHUTTER", "CAP_INTERCAM_HW_SYNC"} :
        ( \/ (c = "CAP_ACTIVE_PROJECTOR" /\ g.active_projector # 0)
          \/ (c = "CAP_IMU_SENSOR" /\ g.imu_sensor # 0)
          \/ (c = "CAP_ROLLING_SHUTTER" /\ g.depth_sensor_type = 1)
          \/ (c = "CAP_GLOBAL_SHUTTER" /\ g.depth_sensor_type = 2)
          \/ (c = "CAP_INTERCAM_HW_SYNC" /\ p # "RS405") )
        # (last.op = "parse" /\ c \in last.val) }
\* the product id's table asked before the chip id byte
parse_device_capabilities_pid_first(g, p) ==
    (IF g.active_projector # 0 THEN {"CAP_ACTIVE_PROJECTOR"} ELSE {})
    \cup (IF g.rgb_sensor # 0 THEN {"CAP_RGB_SENSOR"} ELSE {})
    \cup (IF g.imu_sensor # 0
          THEN {"CAP_IMU_SENSOR"} \cup
               (IF p \in hid_bmi_055_pid THEN {"CAP_BMI_055"}
                ELSE IF p \in hid_bmi_085_pid THEN {"CAP_BMI_085"}
                ELSE IF g.imu_acc_chip_id = I2C_IMU_BMI055_ID_ACC THEN {"CAP_BMI_055"}
                ELSE IF g.imu_acc_chip_id = I2C_IMU_BMI085_ID_ACC THEN {"CAP_BMI_085"}
                ELSE {})
          ELSE {})
    \cup (IF 255 # BitAnd(g.fisheye_sensor_lb, g.fisheye_sensor_hb)
          THEN {"CAP_FISHEYE_SENSOR"} ELSE {})
    \cup (IF g.depth_sensor_type = 1 THEN {"CAP_ROLLING_SHUTTER"} ELSE {})
    \cup (IF g.depth_sensor_type = 2 THEN {"CAP_GLOBAL_SHUTTER"} ELSE {})
    \cup (IF p # "RS405" THEN {"CAP_INTERCAM_HW_SYNC"} ELSE {})

parse_device_capabilities(g, p) ==
    (IF g.active_projector # 0 THEN {"CAP_ACTIVE_PROJECTOR"} ELSE {})
    \cup (IF g.rgb_sensor # 0 THEN {"CAP_RGB_SENSOR"} ELSE {})
    \cup (IF g.imu_sensor # 0
          THEN {"CAP_IMU_SENSOR"} \cup
               (IF g.imu_acc_chip_id = I2C_IMU_BMI055_ID_ACC THEN {"CAP_BMI_055"}
                ELSE IF g.imu_acc_chip_id = I2C_IMU_BMI085_ID_ACC THEN {"CAP_BMI_085"}
                ELSE IF p \in hid_bmi_055_pid THEN {"CAP_BMI_055"}
                ELSE IF p \in hid_bmi_085_pid THEN {"CAP_BMI_085"}
                ELSE {})
          ELSE {})
    \cup (IF 255 # BitAnd(g.fisheye_sensor_lb, g.fisheye_sensor_hb)
          THEN {"CAP_FISHEYE_SENSOR"} ELSE {})
    \cup (IF g.depth_sensor_type = 1 THEN {"CAP_ROLLING_SHUTTER"} ELSE {})
    \cup (IF g.depth_sensor_type = 2 THEN {"CAP_GLOBAL_SHUTTER"} ELSE {})
    \cup (IF p # "RS405" THEN {"CAP_INTERCAM_HW_SYNC"} ELSE {})

\* _device_capabilities: CAP_UNDEFINED unless the firmware is recent enough
device_capabilities ==
    IF VerGE(fw, caps_firmware_version)
    THEN parse_device_capabilities(gvd, pid)
    ELSE {}

HasCaps(mask) == mask \subseteq device_capabilities

-----------------------------------------------------------------------------
(* Options: the terminals and the decorators, as trees *)

NullOpt == [kind |-> "null"]
\* uvc_xu_option / uvc_pu_option / alternating_emitter_option /
\* emitter_always_on_option: one physical register
RawControl(reg) == [kind |-> "raw", reg |-> reg]
\* hdr_option: one field of the HDR coordinator, with its declared range
HdrOption(field, range) == [kind |-> "hdr", field |-> field, range |-> range]
\* gated_option: blockers is a sequence of [opt, reason]
Gated(target, blockers) == [kind |-> "gated", target |-> target, blockers |-> blockers]
\* auto_disabling_control(target, affected auto-enable control)
AutoDisabling(target, auto) == [kind |-> "autodis", target |-> target, auto |-> auto]
\* hdr_conditional_option(hdr_cfg, manual, hdr)
Conditional(manual, hdrOpt) == [kind |-> "cond", manual |-> manual, hdr |-> hdrOpt]

Blocker(opt, reason) == [opt |-> opt, reason |-> reason]

-----------------------------------------------------------------------------
(* ds6_device::init: the options of the depth sensor, in registration order *)

\* register_option: a later registration under the same id replaces the earlier
register_option(r, id, opt) ==
    [x \in (DOMAIN r) \cup {id} |-> IF x = id THEN opt ELSE r[x]]

exposure_range == [min |-> 1, max |-> MaxVal, def |-> 1]
gain_range == [min |-> 1, max |-> MaxVal, def |-> 1]
hdr_id_range == [min |-> 0, max |-> 3, def |-> 1]
hdr_sequence_size_range == [min |-> 2, max |-> 2, def |-> 2]
\* a sequence id range one wider than the two ids the coordinator keeps a pair for
hdr_sequ_id_range_wide == [min |-> 0, max |-> 3, def |-> 0]
hdr_sequ_id_range == [min |-> 0, max |-> 2, def |-> 0]
hdr_enable_range == [min |-> 0, max |-> 1, def |-> 0]

uvc_xu_exposure_option == RawControl("EXPOSURE")
uvc_pu_gain_option == RawControl("GAIN")
enable_auto_exposure == RawControl("AE")
alternating_emitter_opt == RawControl("ON_OFF")
emitter_always_on_opt == RawControl("ALWAYS_ON")

\* if ((_fw_version >= hdr_firmware_version)) -- the global shutter test is commented out
\* the HDR options registered whatever the firmware
hdr_registered_always == TRUE
hdr_registered == VerGE(fw, hdr_firmware_version)

\* hdr_enabled_option stays nullptr unless the HDR options are registered
hdr_enabled_option ==
    IF hdr_registered THEN HdrOption("HDR_ENABLED", hdr_enable_range) ELSE NullOpt

hdr_exposure_option == HdrOption("EXPOSURE", exposure_range)
hdr_gain_option == HdrOption("GAIN", gain_range)

hdr_conditional_exposure_option_swapped ==
    Conditional(hdr_exposure_option, uvc_xu_exposure_option)
hdr_conditional_exposure_option ==
    Conditional(uvc_xu_exposure_option, hdr_exposure_option)
hdr_conditional_gain_option ==
    Conditional(uvc_pu_gain_option, hdr_gain_option)

exposure_option ==
    IF hdr_registered THEN hdr_conditional_exposure_option ELSE uvc_xu_exposure_option
gain_option ==
    IF hdr_registered THEN hdr_conditional_gain_option ELSE uvc_pu_gain_option

\* //AUTO EXPOSURE
register_auto_exposure(r) ==
    register_option(r, "ENABLE_AUTO_EXPOSURE", enable_auto_exposure)

gated_auto_exposure_ungated == enable_auto_exposure
gated_auto_exposure ==
    Gated(enable_auto_exposure,
          <<Blocker(hdr_enabled_option,
                    "Auto Exposure cannot be set while HDR is enabled")>>)

\* the HDR options registered, auto-exposure enable left as the raw option
register_hdr_options_keeping_raw(r) ==
    IF hdr_registered
    THEN LET r1 == register_option(r, "SEQUENCE_NAME",
                                   HdrOption("SEQUENCE_NAME", hdr_id_range))
             r2 == register_option(r1, "SEQUENCE_SIZE",
                                   HdrOption("SEQUENCE_SIZE", hdr_sequence_size_range))
             r3 == register_option(r2, "SEQUENCE_ID",
                                   HdrOption("SEQUENCE_ID", hdr_sequ_id_range))
         IN  register_option(r3, "HDR_ENABLED", hdr_enabled_option)
    ELSE r

\* // register HDR options
register_hdr_options(r) ==
    IF hdr_registered
    THEN LET r1 == register_option(r, "SEQUENCE_NAME",
                                   HdrOption("SEQUENCE_NAME", hdr_id_range))
             r2 == register_option(r1, "SEQUENCE_SIZE",
                                   HdrOption("SEQUENCE_SIZE", hdr_sequence_size_range))
             r3 == register_option(r2, "SEQUENCE_ID",
                                   HdrOption("SEQUENCE_ID", hdr_sequ_id_range))
             r4 == register_option(r3, "HDR_ENABLED", hdr_enabled_option)
         IN  register_option(r4, "ENABLE_AUTO_EXPOSURE", gated_auto_exposure)
    ELSE r

\* //EXPOSURE
exposure_control_swapped == AutoDisabling(enable_auto_exposure, exposure_option)
exposure_control_plain == exposure_option
exposure_control == AutoDisabling(exposure_option, enable_auto_exposure)
\* //GAIN
gain_control == AutoDisabling(gain_option, enable_auto_exposure)

register_exposure_gain(r) ==
    register_option(register_option(r, "EXPOSURE", exposure_control),
                    "GAIN", gain_control)

\* Alternating laser pattern is applicable for global shutter/active SKUs
emitter_mask == {"CAP_GLOBAL_SHUTTER", "CAP_ACTIVE_PROJECTOR"}

\* Emitter always on never registered
emitter_always_on_gated_never == FALSE

emitter_always_on_gated ==
    VerGE(fw, emitter_always_on_firmware_version) /\ HasCaps({"CAP_GLOBAL_SHUTTER"})

gated_emitter_always_on_ungated == emitter_always_on_opt
gated_emitter_always_on ==
    Gated(emitter_always_on_opt,
          <<Blocker(alternating_emitter_opt,
                    "Emitter always ON cannot be set while Emitter ON/OFF is enabled")>>)

register_emitter_always_on(r) ==
    IF emitter_always_on_gated
    THEN register_option(r, "EMITTER_ALWAYS_ON", gated_emitter_always_on)
    ELSE r

\* the tiers as independent tests, the last registration replacing the earlier ones
emitter_on_off_control_last_wins == alternating_emitter_opt
emitter_on_off_control ==
    IF VerGE(fw, hdr_firmware_version)
    THEN Gated(alternating_emitter_opt,
               <<Blocker(hdr_enabled_option,
                         "Emitter ON/OFF cannot be set while HDR is enabled"),
                 Blocker(emitter_always_on_opt,
                         "Emitter ON/OFF cannot be set while Emitter always ON is enabled")>>)
    ELSE IF emitter_always_on_gated
    THEN Gated(alternating_emitter_opt,
               <<Blocker(emitter_always_on_opt,
                         "Emitter ON/OFF cannot be set while Emitter always ON is enabled")>>)
    ELSE alternating_emitter_opt

\* Not yet available in production firmware
experimental_emitter_firmware_version == <<5, 10, 9, 0>>
emitter_on_and_off_option == RawControl("ON_OFF")

register_emitter(r) ==
    IF VerGE(fw, emitter_firmware_version) /\ HasCaps(emitter_mask)
    THEN register_option(register_emitter_always_on(r),
                         "EMITTER_ON_OFF", emitter_on_off_control)
    ELSE IF /\ VerGE(fw, experimental_emitter_firmware_version)
            /\ HasCaps({"CAP_ACTIVE_PROJECTOR"})
            /\ experimental
    THEN register_option(r, "EMITTER_ON_OFF", emitter_on_and_off_option)
    ELSE r

\* external_sync_mode(hw_monitor, sensor, ver)
ExternalSyncMode(ver) == [kind |-> "sync", ver |-> ver]

\* the tiers as independent tests, the last registration replacing the earlier ones
register_inter_cam_sync_last_wins(r) ==
    LET r3 == IF VerGE(fw, <<5, 12, 12, 100>>) /\ HasCaps({"CAP_GLOBAL_SHUTTER"})
              THEN register_option(r, "INTER_CAM_SYNC_MODE", ExternalSyncMode(3)) ELSE r
        r2 == IF VerGE(fw, <<5, 12, 4, 0>>) /\ HasCaps({"CAP_GLOBAL_SHUTTER"})
              THEN register_option(r3, "INTER_CAM_SYNC_MODE", ExternalSyncMode(2)) ELSE r3
        r1 == IF VerGE(fw, <<5, 9, 15, 1>>)
              THEN register_option(r2, "INTER_CAM_SYNC_MODE", ExternalSyncMode(1)) ELSE r2
    IN  IF HasCaps({"CAP_INTERCAM_HW_SYNC"}) THEN r1 ELSE r

\* the inter-camera sync mode option, by tier
register_inter_cam_sync(r) ==
    IF HasCaps({"CAP_INTERCAM_HW_SYNC"})
    THEN IF VerGE(fw, <<5, 12, 12, 100>>) /\ HasCaps({"CAP_GLOBAL_SHUTTER"})
         THEN register_option(r, "INTER_CAM_SYNC_MODE", ExternalSyncMode(3))
         ELSE IF VerGE(fw, <<5, 12, 4, 0>>) /\ HasCaps({"CAP_GLOBAL_SHUTTER"})
         THEN register_option(r, "INTER_CAM_SYNC_MODE", ExternalSyncMode(2))
         ELSE IF VerGE(fw, <<5, 9, 15, 1>>)
         THEN register_option(r, "INTER_CAM_SYNC_MODE", ExternalSyncMode(1))
         ELSE r
    ELSE r

\* the option registry of the depth sensor once init has run
Registry ==
    register_inter_cam_sync(
        register_emitter(
            register_exposure_gain(
                register_hdr_options(
                    register_auto_exposure(<<>>)))))

-----------------------------------------------------------------------------
(* What the options do.  A call works on S = [hw, hdr] and F, the set of    *)
(* register accesses <<"r" | "w", reg>> whose transfer fails during the     *)
(* call; it returns the new state, the outcome and the log of the accesses  *)
(* it made, in order.                                                       *)

\* the two sequence ids the coordinator keeps an (exposure, gain) pair for
HdrIds == 1..hdr_sequence_size_range.max

Access(a, reg, val, ok) == [a |-> a, reg |-> reg, val |-> val, ok |-> ok]

InRange(v, range) == range.min <= v /\ v <= range.max

\* hdr_config::get, by option
HdrGet(field, S) ==
    CASE field = "HDR_ENABLED" ->
            [ok |-> TRUE, val |-> IF S.hdr.enabled THEN 1 ELSE 0, err |-> "ok"]
      [] field = "SEQUENCE_ID" -> [ok |-> TRUE, val |-> S.hdr.id, err |-> "ok"]
      [] field = "SEQUENCE_NAME" -> [ok |-> TRUE, val |-> S.hdr.name, err |-> "ok"]
      [] field = "SEQUENCE_SIZE" -> [ok |-> TRUE, val |-> S.hdr.size, err |-> "ok"]
      [] field = "EXPOSURE" ->
            IF S.hdr.id \in HdrIds
            THEN [ok |-> TRUE, val |-> S.hdr.exposure[S.hdr.id], err |-> "ok"]
            ELSE [ok |-> FALSE, val |-> 0, err |-> "SequenceOutOfRange"]
      [] field = "GAIN" ->
            IF S.hdr.id \in HdrIds
            THEN [ok |-> TRUE, val |-> S.hdr.gain[S.hdr.id], err |-> "ok"]
            ELSE [ok |-> FALSE, val |-> 0, err |-> "SequenceOutOfRange"]

RECURSIVE OptGet(_, _, _)
OptGet(o, S, F) ==
    CASE o.kind = "raw" ->
            IF <<"r", o.reg>> \in F
            THEN [ok |-> FALSE, val |-> 0, err |-> "TransportError",
                  log |-> <<Access("r", o.reg, 0, FALSE)>>]
            ELSE [ok |-> TRUE, val |-> S.hw[o.reg], err |-> "ok",
                  log |-> <<Access("r", o.reg, S.hw[o.reg], TRUE)>>]
      [] o.kind = "hdr" ->
            LET g == HdrGet(o.field, S)
            IN  [ok |-> g.ok, val |-> g.val, err |-> g.err,
                 log |-> <<Access("r", "hdr_config", g.val, g.ok)>>]
      [] o.kind = "gated" -> OptGet(o.target, S, F)
      [] o.kind = "autodis" -> OptGet(o.target, S, F)
      [] o.kind = "cond" ->
            IF S.hdr.enabled THEN OptGet(o.hdr, S, F) ELSE OptGet(o.manual, S, F)
      [] OTHER -> [ok |-> FALSE, val |-> 0, err |-> "NullOption", log |-> <<>>]

Done(S, res, reason, log) == [st |-> S, res |-> res, reason |-> reason, log |-> log]

\* write of one physical register
RawSet(reg, v, S, F) ==
    IF <<"w", reg>> \in F
    THEN Done(S, "TransportError", "", <<Access("w", reg, v, FALSE)>>)
    ELSE Done([S EXCEPT !.hw[reg] = v], "ok", "", <<Access("w", reg, v, TRUE)>>)

\* hdr_config::set, by option: the range is checked before anything is written
HdrSet(field, range, v, S, F) ==
    IF ~InRange(v, range) THEN Done(S, "SequenceOutOfRange", "", <<>>)
    ELSE CASE field = "HDR_ENABLED" ->
                 \* enabling and disabling are written to the firmware
                 LET w == RawSet("HDR_FW", v, S, F)
                 IN  IF w.res # "ok" THEN w
                     ELSE Done([w.st EXCEPT !.hdr.enabled = (v # 0)], "ok", "",
                               w.log \o <<Access("w", "hdr_config", v, TRUE)>>)
           [] field = "SEQUENCE_ID" ->
                 Done([S EXCEPT !.hdr.id = v], "ok", "",
                      <<Access("w", "hdr_config", v, TRUE)>>)
           [] field = "SEQUENCE_NAME" ->
                 Done([S EXCEPT !.hdr.name = v], "ok", "",
                      <<Access("w", "hdr_config", v, TRUE)>>)
           [] field = "SEQUENCE_SIZE" ->
                 Done([S EXCEPT !.hdr.size = v], "ok", "",
                      <<Access("w", "hdr_config", v, TRUE)>>)
           [] field = "EXPOSURE" ->
                 IF S.hdr.id \in HdrIds
                 THEN Done([S EXCEPT !.hdr.exposure[S.hdr.id] = v], "ok", "",
                           <<Access("w", "hdr_config", v, TRUE)>>)
                 ELSE Done(S, "SequenceOutOfRange", "", <<>>)
           [] field = "GAIN" ->
                 IF S.hdr.id \in HdrIds
                 THEN Done([S EXCEPT !.hdr.gain[S.hdr.id] = v], "ok", "",
                           <<Access("w", "hdr_config", v, TRUE)>>)
                 ELSE Done(S, "SequenceOutOfRange", "", <<>>)

\* the blockers of a gated option read in order, up to the first that stops the set
BlockerReads(blockers, S, F) == [i \in DOMAIN blockers |-> OptGet(blockers[i].opt, S, F)]
Stops(reads) == {i \in DOMAIN reads : ~reads[i].ok \/ reads[i].val # 0}
FirstStop(reads) == CHOOSE i \in Stops(reads) : \A j \in Stops(reads) : i <= j

RECURSIVE LogUpTo(_, _)
LogUpTo(reads, n) == IF n = 0 THEN <<>> ELSE LogUpTo(reads, n - 1) \o reads[n].log

RECURSIVE OptSet(_, _, _, _)
OptSet(o, v, S, F) ==
    CASE o.kind = "raw" -> RawSet(o.reg, v, S, F)
      [] o.kind = "hdr" -> HdrSet(o.field, o.range, v, S, F)
      [] o.kind = "gated" ->
            LET reads == BlockerReads(o.blockers, S, F)
            IN  IF Stops(reads) = {}
                THEN LET w == OptSet(o.target, v, S, F)
                     IN  Done(w.st, w.res, w.reason,
                              LogUpTo(reads, Len(o.blockers)) \o w.log)
                ELSE LET i == FirstStop(reads)
                     IN  IF reads[i].ok
                         THEN Done(S, "PreconditionBlocked", o.blockers[i].reason,
                                   LogUpTo(reads, i))
                         ELSE Done(S, reads[i].err, "", LogUpTo(reads, i))
      [] o.kind = "autodis" ->
            \* the auto-enable control is forced to 0 first, then the value is applied
            LET a == OptSet(o.auto, 0, S, F)
            IN  IF a.res # "ok" THEN a
                ELSE LET w == OptSet(o.target, v, a.st, F)
                     IN  Done(w.st, w.res, w.reason, a.log \o w.log)
      [] o.kind = "cond" ->
            IF S.hdr.enabled THEN OptSet(o.hdr, v, S, F) ELSE OptSet(o.manual, v, S, F)
      [] OTHER -> Done(S, "NullOption", "", <<>>)

-----------------------------------------------------------------------------
(* Devices *)

Gvd(projector, shutter) ==
    [active_projector |-> projector, rgb_sensor |-> 0, imu_sensor |-> 0,
     imu_acc_chip_id |-> 0, fisheye_sensor_lb |-> 255, fisheye_sensor_hb |-> 255,
     depth_sensor_type |-> shutter]

Device(v, g, p) == [fw |-> v, gvd |-> g, pid |-> p, experimental |-> FALSE]

\* the device the constructor finds
IsDevice(d) ==
    fw = d.fw /\ gvd = d.gvd /\ pid = d.pid /\ experimental = d.experimental

\* one device per registration tier
OptDevices ==
    { Device(<<5, 12, 8, 100>>, Gvd(1, 2), "RS435"),   \* HDR, global shutter, projector
      Device(<<5, 12, 1, 0>>, Gvd(1, 2), "RS435"),     \* mutually gated emitter options
      Device(<<5, 11, 3, 0>>, Gvd(1, 2), "RS435"),     \* emitter on/off ungated
      Device(<<5, 9, 15, 1>>, Gvd(1, 2), "RS435") }    \* capabilities not parsed

Regs == {"AE", "EXPOSURE", "GAIN", "ALWAYS_ON", "ON_OFF", "HDR_FW"}

InitHw(ae) ==
    [AE |-> ae, EXPOSURE |-> exposure_range.def, GAIN |-> gain_range.def,
     ALWAYS_ON |-> 0, ON_OFF |-> 0, HDR_FW |-> 0]

\* hdr_config as constructed by init_hdr_config
InitHdr ==
    [enabled |-> FALSE, id |-> hdr_sequ_id_range.def, name |-> hdr_id_range.def,
     size |-> hdr_sequence_size_range.def,
     exposure |-> [i \in HdrIds |-> exposure_range.def],
     gain |-> [i \in HdrIds |-> gain_range.def]]

NoCall == [op |-> "none", opt |-> "", val |-> 0, res |-> "ok", reason |-> "", log |-> <<>>]

-----------------------------------------------------------------------------
(* Calls through the option registry, one caller at a time *)

Cur == [hw |-> hw, hdr |-> hdr]
Nxt == [hw |-> hw', hdr |-> hdr']

\* the register accesses a query of o may make
RECURSIVE GetAccesses(_)
GetAccesses(o) ==
    CASE o.kind = "raw" -> {<<"r", o.reg>>}
      [] o.kind \in {"gated", "autodis"} -> GetAccesses(o.target)
      [] o.kind = "cond" -> GetAccesses(o.manual) \cup GetAccesses(o.hdr)
      [] OTHER -> {}

\* the register accesses a set of o may make
RECURSIVE SetAccesses(_)
SetAccesses(o) ==
    CASE o.kind = "raw" -> {<<"w", o.reg>>}
      [] o.kind = "hdr" -> IF o.field = "HDR_ENABLED" THEN {<<"w", "HDR_FW">>} ELSE {}
      [] o.kind = "gated" ->
            SetAccesses(o.target) \cup
            UNION {GetAccesses(o.blockers[i].opt) : i \in DOMAIN o.blockers}
      [] o.kind = "autodis" -> SetAccesses(o.auto) \cup SetAccesses(o.target)
      [] o.kind = "cond" -> SetAccesses(o.manual) \cup SetAccesses(o.hdr)
      [] OTHER -> {}

\* the transfers that fail during one call: none, or every access of one kind to
\* one register (a transfer the call never makes cannot fail)
FaultSets(accesses) == {{}} \cup {{a} : a \in accesses}

\* the values a caller passes: the registered option's range
SetValues(id) ==
    CASE id \in {"EXPOSURE", "GAIN"} -> exposure_range.min..exposure_range.max
      [] id = "SEQUENCE_ID" -> hdr_sequ_id_range.min..hdr_sequ_id_range.max
      [] id = "HDR_ENABLED" -> hdr_enable_range.min..hdr_enable_range.max
      [] OTHER -> {0, 1}

\* the lazily evaluated calibration values of the device
Lazies == {"coefficients_table_raw", "color_calib_table_raw", "new_calib_table_raw",
           "left_right_extrinsics"}

NoSeen == [lazy |-> "", val |-> 0]
NoCalls == [t \in Threads |-> [opt |-> "", val |-> 0]]

\* no lazy value has been asked for
LazyFresh ==
    /\ stack = [t \in Threads |-> <<>>]
    /\ seen = [t \in Threads |-> NoSeen]
    /\ cache = [l \in Lazies |-> 0]
    /\ mutex = [l \in Lazies |-> 0]
    /\ calls = [l \in Lazies |-> 0]
    /\ fails = [l \in Lazies |-> 0]
    /\ fetches = [l \in Lazies |-> 0]

\* a constructed device with no call in progress
Quiescent ==
    /\ call = NoCalls
    /\ LazyFresh
    /\ advanced = FALSE
    /\ hw_monitor = TRUE
    /\ ready = TRUE
    /\ pc = [t \in Threads |-> "idle"]
    /\ initIdx = 0
    /\ owner = 0
    /\ depth = 0
    /\ inflight = {}
    /\ outcome = [t \in Threads |-> "none"]

InitOpt ==
    /\ \E d \in OptDevices : IsDevice(d)
    /\ registry = Registry
    /\ Quiescent
    /\ \E ae \in {0, 1} : hw = InitHw(ae)
    /\ hdr = InitHdr
    /\ last = NoCall

\* option::set through the registry
SetOption(id, v, F) ==
    /\ LET r == OptSet(registry[id], v, Cur, F)
       IN  /\ hw' = r.st.hw
           /\ hdr' = r.st.hdr
           /\ last' = [op |-> "set", opt |-> id, val |-> v, res |-> r.res,
                       reason |-> r.reason, log |-> r.log]
    /\ UNCHANGED <<cfgVars, call, lazyVars>>
    /\ UNCHANGED lockVars

\* option::query through the registry
QueryOption(id, F) ==
    /\ LET r == OptGet(registry[id], Cur, F)
       IN  last' = [op |-> "get", opt |-> id, val |-> r.val, res |-> r.err,
                    reason |-> "", log |-> r.log]
    /\ UNCHANGED <<hw, hdr>>
    /\ UNCHANGED <<cfgVars, call, lazyVars>>
    /\ UNCHANGED lockVars

\* callers of the exposure, gain and HDR-enabled options; the active sequence id
\* is any id a SEQUENCE_ID set made current before
ExposureIds == {"ENABLE_AUTO_EXPOSURE", "EXPOSURE", "GAIN", "HDR_ENABLED"}

InitExposure ==
    /\ \E d \in OptDevices : IsDevice(d)
    /\ registry = Registry
    /\ Quiescent
    /\ \E ae \in {0, 1} : hw = InitHw(ae)
    /\ \E i \in (IF hdr_registered
                 THEN hdr_sequ_id_range.min..hdr_sequ_id_range.max
                 ELSE {hdr_sequ_id_range.def}) :
          hdr = [InitHdr EXCEPT !.id = i]
    /\ last = NoCall

NextExposure ==
    \/ \E id \in DOMAIN registry \cap ExposureIds : \E v \in SetValues(id) :
          \E F \in FaultSets(SetAccesses(registry[id])) : SetOption(id, v, F)
    \/ \E id \in DOMAIN registry \cap ExposureIds :
          \E F \in FaultSets(GetAccesses(registry[id])) : QueryOption(id, F)

SpecExposure == InitExposure /\ [][NextExposure]_vars

\* callers of the gated options and of their blockers
GatedIds == {"ENABLE_AUTO_EXPOSURE", "HDR_ENABLED", "EMITTER_ALWAYS_ON", "EMITTER_ON_OFF"}

NextGated ==
    \/ \E id \in DOMAIN registry \cap GatedIds : \E v \in SetValues(id) :
          \E F \in FaultSets(SetAccesses(registry[id])) : SetOption(id, v, F)
    \/ \E id \in DOMAIN registry \cap GatedIds :
          \E F \in FaultSets(GetAccesses(registry[id])) : QueryOption(id, F)

SpecGated == InitOpt /\ [][NextGated]_vars

-----------------------------------------------------------------------------
(* Claims about the option decorators *)

\* what a query of the registered option id returns in S when no transfer fails
Reads(id, S) == OptGet(registry[id], S, {})
ReadsNonzero(id, S) == Reads(id, S).ok /\ Reads(id, S).val # 0
FailedTransfer(log) == \E k \in DOMAIN log : ~log[k].ok
Touches(log, reg) == \E k \in DOMAIN log : log[k].reg = reg

\* (gated option, blocker) as the registration policy pairs them
GatedBy ==
    { <<"ENABLE_AUTO_EXPOSURE", "HDR_ENABLED">>,
      <<"EMITTER_ALWAYS_ON", "EMITTER_ON_OFF">>,
      <<"EMITTER_ON_OFF", "HDR_ENABLED">>,
      <<"EMITTER_ON_OFF", "EMITTER_ALWAYS_ON">> }

\* the reason registered with the first blocker of o, in order, that reads nonzero
FirstActiveReason(o, S) ==
    LET active == {i \in DOMAIN o.blockers :
                      LET g == OptGet(o.blockers[i].opt, S, {}) IN g.ok /\ g.val # 0}
    IN  o.blockers[CHOOSE i \in active : \A j \in active : i <= j].reason

\* C4: whenever a blocker of a registered gated option (auto-exposure enable,
\* emitter on/off, emitter always on) reads nonzero, a set on the gated option
\* writes nothing, so a later get on the target returns the value it had before,
\* and, unless reading a blocker failed in transport, it fails with
\* PreconditionBlocked carrying the reason registered with the first blocker, in
\* order, that reads nonzero.
C4_GatedSetBlocked ==
    [][\A p \in GatedBy :
          ( /\ p[1] \in DOMAIN registry
            /\ p[2] \in DOMAIN registry
            /\ last'.op = "set"
            /\ last'.opt = p[1]
            /\ ReadsNonzero(p[2], Cur) )
          => /\ hw' = hw
             /\ hdr' = hdr
             /\ Reads(p[1], Nxt) = Reads(p[1], Cur)
             /\ last'.res \in {"PreconditionBlocked", "TransportError"}
             /\ last'.res = "TransportError" => FailedTransfer(last'.log)
             /\ last'.res = "PreconditionBlocked" =>
                   /\ registry[p[1]].kind = "gated"
                   /\ last'.reason = FirstActiveReason(registry[p[1]], Cur)
      ]_vars

\* a set on emitter on/off was refused because emitter always on reads 1, while
\* HDR is off
C4_Witness ==
    /\ last.op = "set"
    /\ last.opt = "EMITTER_ON_OFF"
    /\ last.val = 1
    /\ last.res = "PreconditionBlocked"
    /\ last.reason = "Emitter ON/OFF cannot be set while Emitter always ON is enabled"
    /\ hw.ALWAYS_ON = 1
    /\ hw.ON_OFF = 0
    /\ ~hdr.enabled

WritesTarget(a, id) == a.a = "w" /\ a.ok /\ a.reg \in {id, "hdr_config"}

\* C6: after every successful set(v) on the registered Exposure or Gain option,
\* the auto-exposure enable flag reads 0 and the option reads v, and within the
\* call the auto-exposure flag was written 0 before the target value was written.
C6_AutoDisablingSet ==
    [][\A id \in {"EXPOSURE", "GAIN"} :
          (id \in DOMAIN registry /\ last'.op = "set" /\ last'.opt = id /\ last'.res = "ok")
          => /\ Reads("ENABLE_AUTO_EXPOSURE", Nxt).val = 0
             /\ hw'.AE = 0
             /\ Reads(id, Nxt).ok
             /\ Reads(id, Nxt).val = last'.val
             /\ \E i \in DOMAIN last'.log :
                   /\ last'.log[i] = Access("w", "AE", 0, TRUE)
                   /\ \E j \in DOMAIN last'.log : WritesTarget(last'.log[j], id)
                   /\ \A j \in DOMAIN last'.log : WritesTarget(last'.log[j], id) => i < j
      ]_vars

\* auto-exposure was on, a set of Exposure to a new value succeeded, and the flag is off
C6_Witness ==
    /\ last.op = "set"
    /\ last.opt = "EXPOSURE"
    /\ last.res = "ok"
    /\ last.val = MaxVal
    /\ hw.EXPOSURE = MaxVal
    /\ hw.AE = 0
    /\ Len(last.log) = 2

AutoClearFailed(log) == \E k \in DOMAIN log : log[k].a = "w" /\ log[k].reg = "AE" /\ ~log[k].ok

\* C7: when the write that clears the auto-exposure enable flag fails during a set
\* on the registered Exposure or Gain option, the set fails, no target write is
\* made and the option reads what it read before the call.
C7_AutoClearFailureLeavesTarget ==
    [][\A id \in {"EXPOSURE", "GAIN"} :
          ( /\ id \in DOMAIN registry
            /\ last'.op = "set"
            /\ last'.opt = id
            /\ AutoClearFailed(last'.log) )
          => /\ last'.res = "TransportError"
             /\ hw'[id] = hw[id]
             /\ hdr' = hdr
             /\ Reads(id, Nxt) = Reads(id, Cur)
             /\ \A k \in DOMAIN last'.log : ~WritesTarget(last'.log[k], id)
      ]_vars

\* a set of Gain to another value than the current one failed on clearing the flag
C7_Witness ==
    /\ last.op = "set"
    /\ last.opt = "GAIN"
    /\ last.res = "TransportError"
    /\ last.log = <<Access("w", "AE", 0, FALSE)>>
    /\ last.val # hw.GAIN
    /\ hw.AE = 1

-----------------------------------------------------------------------------
(* The firmware command channel.  hw_monitor sends every command through    *)
(* locked_transfer, which holds the device's exclusive session for the      *)
(* length of the command; group_multiple_fw_calls holds the same session    *)
(* around a block.  The session is re-entrant for the thread that holds it. *)

SessionFree(t) == owner \in {0, t}
EnterSession(t) == owner' = t /\ depth' = depth + 1
\* leave the session n times
Release(t, n) == depth' = depth - n /\ owner' = IF depth - n = 0 THEN 0 ELSE owner

\* hw_monitor::send, up to the command being at the transport
HwmSend(t) ==
    /\ SessionFree(t)
    /\ EnterSession(t)
    /\ inflight' = inflight \cup {t}

\* the transport without the lock around it
TransportSend(t) ==
    /\ inflight' = inflight \cup {t}
    /\ UNCHANGED <<owner, depth>>

\* the command's response, or its failure, is back
HwmDone(t) ==
    /\ t \in inflight
    /\ inflight' = inflight \ {t}

\* one call that is one firmware command: the command goes out
CommandStart(t, waitPc) ==
    /\ pc[t] = "idle"
    /\ ready
    /\ HwmSend(t)
    /\ pc' = [pc EXCEPT ![t] = waitPc]
    /\ outcome' = [outcome EXCEPT ![t] = "none"]
    /\ UNCHANGED <<advanced, hw_monitor, ready, initIdx>>
    /\ UNCHANGED <<cfgVars, call, lazyVars>>
    /\ UNCHANGED optVars

\* one call that is one firmware command: it returns, or throws what the transport threw
CommandEnd(t, waitPc, ok) ==
    /\ pc[t] = waitPc
    /\ HwmDone(t)
    /\ Release(t, 1)
    /\ pc' = [pc EXCEPT ![t] = "idle"]
    /\ outcome' = [outcome EXCEPT ![t] = IF ok THEN "ok" ELSE "failed"]
    /\ UNCHANGED <<advanced, hw_monitor, ready, initIdx>>
    /\ UNCHANGED <<cfgVars, call, lazyVars>>
    /\ UNCHANGED optVars

hardware_reset(t) == CommandStart(t, "reset_wait")
hardware_reset_done(t, ok) == CommandEnd(t, "reset_wait", ok)

send_receive_raw_data_unlocked(t) ==
    /\ pc[t] = "idle"
    /\ ready
    /\ TransportSend(t)
    /\ pc' = [pc EXCEPT ![t] = "raw_wait"]
    /\ outcome' = [outcome EXCEPT ![t] = "none"]
    /\ UNCHANGED <<advanced, hw_monitor, ready, initIdx>>
    /\ UNCHANGED <<cfgVars, call, lazyVars>>
    /\ UNCHANGED optVars
send_receive_raw_data(t) == CommandStart(t, "raw_wait")
send_receive_raw_data_done(t, ok) == CommandEnd(t, "raw_wait", ok)

\* an option get or set that is one command to the device
option_access(t) == CommandStart(t, "option_wait")
option_access_done(t, ok) == CommandEnd(t, "option_wait", ok)

get_raw_calibration_table(t) == CommandStart(t, "calib_wait")
get_raw_calibration_table_done(t, ok) == CommandEnd(t, "calib_wait", ok)

\* get_device_time_ms: throws before sending when _hw_monitor is not there
get_device_time_ms(t) ==
    IF hw_monitor
    THEN CommandStart(t, "time_wait")
    ELSE /\ pc[t] = "idle"
         /\ ready
         /\ outcome' = [outcome EXCEPT ![t] = "failed"]
         /\ UNCHANGED <<advanced, hw_monitor, ready, pc, initIdx, owner, depth, inflight>>
         /\ UNCHANGED <<cfgVars, call, lazyVars>>
         /\ UNCHANGED optVars
\* the response may be shorter than the 4 bytes of the tick count
get_device_time_ms_done(t, ok, short) == CommandEnd(t, "time_wait", ok /\ ~short)

-----------------------------------------------------------------------------
(* ds6_device::init: the firmware commands of its grouped block *)

lock_firmware_version == <<5, 6, 3, 0>>
InitCommands ==
    <<"GVD">>
    \o (IF VerGE(fw, caps_firmware_version) THEN <<"GVD_CAPABILITIES">> ELSE <<>>)
    \o <<"UAMG">>
    \o (IF VerGE(fw, lock_firmware_version) THEN <<"GVD_LOCKED">> ELSE <<>>)

\* the hardware monitor is created, then the grouped block is entered
init_begin(t) ==
    /\ pc[t] = "init"
    /\ SessionFree(t)
    /\ EnterSession(t)
    /\ hw_monitor' = TRUE
    /\ initIdx' = 1
    /\ pc' = [pc EXCEPT ![t] = "init_cmd"]
    /\ UNCHANGED <<advanced, ready, inflight, outcome>>
    /\ UNCHANGED <<cfgVars, call, lazyVars>>
    /\ UNCHANGED optVars

init_send(t) ==
    /\ pc[t] = "init_cmd"
    /\ initIdx <= Len(InitCommands)
    /\ HwmSend(t)
    /\ pc' = [pc EXCEPT ![t] = "init_wait"]
    /\ UNCHANGED <<advanced, hw_monitor, ready, initIdx, outcome>>
    /\ UNCHANGED <<cfgVars, call, lazyVars>>
    /\ UNCHANGED optVars

\* a command of init answers (adv: what is_camera_in_advanced_mode answered), or
\* fails and the constructor throws through the grouped block
init_done(t, ok, adv) ==
    /\ pc[t] = "init_wait"
    /\ HwmDone(t)
    /\ IF ok
       THEN /\ Release(t, 1)
            /\ initIdx' = initIdx + 1
            /\ advanced' = IF InitCommands[initIdx] = "UAMG" THEN adv ELSE advanced
            /\ pc' = [pc EXCEPT ![t] = "init_cmd"]
            /\ UNCHANGED outcome
       ELSE /\ Release(t, 2)
            /\ pc' = [pc EXCEPT ![t] = "init_failed"]
            /\ outcome' = [outcome EXCEPT ![t] = "failed"]
            /\ UNCHANGED <<initIdx, advanced>>
    /\ UNCHANGED <<hw_monitor, ready>>
    /\ UNCHANGED <<cfgVars, call, lazyVars>>
    /\ UNCHANGED optVars

\* the grouped block ends and the device is handed to its callers
init_end(t) ==
    /\ pc[t] = "init_cmd"
    /\ initIdx > Len(InitCommands)
    /\ Release(t, 1)
    /\ ready' = TRUE
    /\ pc' = [pc EXCEPT ![t] = "idle"]
    /\ outcome' = [outcome EXCEPT ![t] = "ok"]
    /\ UNCHANGED <<advanced, hw_monitor, initIdx, inflight>>
    /\ UNCHANGED <<cfgVars, call, lazyVars>>
    /\ UNCHANGED optVars

-----------------------------------------------------------------------------
(* ds6_depth_sensor::open: one grouped block *)

\* RS2_OPTION_DEPTH_UNITS is read from the firmware only in advanced mode
depth_units_from_firmware == advanced /\ VerGE(fw, lock_firmware_version)

\* the re-assert made whenever there is a coordinator
hdr_to_restore_always == hdr_registered
\* if (_hdr_cfg && _hdr_cfg->is_enabled())
hdr_to_restore == hdr_registered /\ hdr.enabled

\* the block returns
open_return(t, held) == Release(t, held)
\* a step of the block throws: the exception leaves through the grouped block
open_throw(t, held) == Release(t, held)

open_ungrouped(t) ==
    /\ pc[t] = "idle"
    /\ ready
    /\ pc' = [pc EXCEPT ![t] = "open_units"]
    /\ outcome' = [outcome EXCEPT ![t] = "none"]
    /\ UNCHANGED <<advanced, hw_monitor, ready, initIdx, owner, depth, inflight>>
    /\ UNCHANGED <<cfgVars, call, lazyVars>>
    /\ UNCHANGED optVars
\* group_multiple_fw_calls(*this, [&]() {
open(t) ==
    /\ pc[t] = "idle"
    /\ ready
    /\ SessionFree(t)
    /\ EnterSession(t)
    /\ pc' = [pc EXCEPT ![t] = "open_units"]
    /\ outcome' = [outcome EXCEPT ![t] = "none"]
    /\ UNCHANGED <<advanced, hw_monitor, ready, initIdx, inflight>>
    /\ UNCHANGED <<cfgVars, call, lazyVars>>
    /\ UNCHANGED optVars

\* _depth_units = get_option(RS2_OPTION_DEPTH_UNITS).query();
open_depth_units(t) ==
    /\ pc[t] = "open_units"
    /\ IF depth_units_from_firmware
       THEN /\ HwmSend(t)
            /\ pc' = [pc EXCEPT ![t] = "open_units_wait"]
       ELSE /\ pc' = [pc EXCEPT ![t] = "open_stream"]
            /\ UNCHANGED <<owner, depth, inflight>>
    /\ UNCHANGED <<advanced, hw_monitor, ready, initIdx, outcome>>
    /\ UNCHANGED <<cfgVars, call, lazyVars>>
    /\ UNCHANGED optVars

open_depth_units_done(t, ok) ==
    /\ pc[t] = "open_units_wait"
    /\ HwmDone(t)
    /\ IF ok
       THEN /\ Release(t, 1)
            /\ pc' = [pc EXCEPT ![t] = "open_stream"]
            /\ UNCHANGED outcome
       ELSE /\ open_throw(t, 2)
            /\ pc' = [pc EXCEPT ![t] = "idle"]
            /\ outcome' = [outcome EXCEPT ![t] = "units_failed"]
    /\ UNCHANGED <<advanced, hw_monitor, ready, initIdx>>
    /\ UNCHANGED <<cfgVars, call, lazyVars>>
    /\ UNCHANGED optVars

\* synthetic_sensor::open(requests);
open_stream(t, ok) ==
    /\ pc[t] = "open_stream"
    /\ IF ok
       THEN /\ pc' = [pc EXCEPT ![t] = "open_hdr"]
            /\ UNCHANGED <<owner, depth, outcome>>
       ELSE /\ open_throw(t, 1)
            /\ pc' = [pc EXCEPT ![t] = "idle"]
            /\ outcome' = [outcome EXCEPT ![t] = "stream_failed"]
    /\ UNCHANGED <<advanced, hw_monitor, ready, initIdx, inflight>>
    /\ UNCHANGED <<cfgVars, call, lazyVars>>
    /\ UNCHANGED optVars

\* needed in order to restore the HDR sub-preset when streaming is turned off and on
open_hdr(t) ==
    /\ pc[t] = "open_hdr"
    /\ IF hdr_to_restore
       THEN /\ HwmSend(t)
            /\ pc' = [pc EXCEPT ![t] = "open_hdr_wait"]
            /\ UNCHANGED outcome
       ELSE /\ open_return(t, 1)
            /\ pc' = [pc EXCEPT ![t] = "idle"]
            /\ outcome' = [outcome EXCEPT ![t] = "ok"]
            /\ UNCHANGED inflight
    /\ UNCHANGED <<advanced, hw_monitor, ready, initIdx>>
    /\ UNCHANGED <<cfgVars, call, lazyVars>>
    /\ UNCHANGED optVars

\* the re-assert fails and only the command's own hold of the session is given up
open_hdr_done_keeps_session(t, ok) ==
    /\ pc[t] = "open_hdr_wait"
    /\ HwmDone(t)
    /\ IF ok
       THEN /\ open_return(t, 2)
            /\ hw' = [hw EXCEPT !.HDR_FW = 1]
            /\ outcome' = [outcome EXCEPT ![t] = "ok"]
       ELSE /\ Release(t, 1)
            /\ hw' = hw
            /\ outcome' = [outcome EXCEPT ![t] = "hdr_failed"]
    /\ pc' = [pc EXCEPT ![t] = "idle"]
    /\ UNCHANGED <<advanced, hw_monitor, ready, initIdx>>
    /\ UNCHANGED <<cfgVars, call, lazyVars>>
    /\ UNCHANGED <<hdr, last>>
\* get_option(RS2_OPTION_HDR_ENABLED).set(1.f) returns, or throws through the block
open_hdr_done(t, ok) ==
    /\ pc[t] = "open_hdr_wait"
    /\ HwmDone(t)
    /\ IF ok
       THEN /\ open_return(t, 2)
            /\ hw' = [hw EXCEPT !.HDR_FW = 1]
            /\ outcome' = [outcome EXCEPT ![t] = "ok"]
       ELSE /\ open_throw(t, 2)
            /\ hw' = hw
            /\ outcome' = [outcome EXCEPT ![t] = "hdr_failed"]
    /\ pc' = [pc EXCEPT ![t] = "idle"]
    /\ UNCHANGED <<advanced, hw_monitor, ready, initIdx>>
    /\ UNCHANGED <<cfgVars, call, lazyVars>>
    /\ UNCHANGED <<hdr, last>>

-----------------------------------------------------------------------------
(* Concurrent callers of one device, from its construction on *)

LockDevices ==
    { Device(<<5, 12, 8, 100>>, Gvd(1, 2), "RS435"),
      Device(<<5, 5, 8, 0>>, Gvd(1, 2), "RS435") }

\* thread 1 constructs the device; the HDR coordinator may be found enabled
InitLock ==
    /\ \E d \in LockDevices : IsDevice(d)
    /\ registry = Registry
    /\ hw = InitHw(0)
    /\ \E e \in (IF hdr_registered THEN BOOLEAN ELSE {FALSE}) :
          hdr = [InitHdr EXCEPT !.enabled = e]
    /\ last = NoCall
    /\ call = NoCalls
    /\ LazyFresh
    /\ advanced = FALSE
    /\ hw_monitor = FALSE
    /\ ready = FALSE
    /\ pc = [t \in Threads |-> IF t = 1 THEN "init" ELSE "idle"]
    /\ initIdx = 0
    /\ owner = 0
    /\ depth = 0
    /\ inflight = {}
    /\ outcome = [t \in Threads |-> "none"]

NextLock ==
    \E t \in Threads :
        \/ init_begin(t)
        \/ init_send(t)
        \/ \E ok \in BOOLEAN : \E adv \in BOOLEAN : init_done(t, ok, adv)
        \/ init_end(t)
        \/ hardware_reset(t)
        \/ \E ok \in BOOLEAN : hardware_reset_done(t, ok)
        \/ send_receive_raw_data(t)
        \/ \E ok \in BOOLEAN : send_receive_raw_data_done(t, ok)
        \/ option_access(t)
        \/ \E ok \in BOOLEAN : option_access_done(t, ok)
        \/ get_raw_calibration_table(t)
        \/ \E ok \in BOOLEAN : get_raw_calibration_table_done(t, ok)
        \/ get_device_time_ms(t)
        \/ \E ok \in BOOLEAN : \E short \in BOOLEAN : get_device_time_ms_done(t, ok, short)
        \/ open(t)
        \/ open_depth_units(t)
        \/ \E ok \in BOOLEAN : open_depth_units_done(t, ok)
        \/ \E ok \in BOOLEAN : open_stream(t, ok)
        \/ open_hdr(t)
        \/ \E ok \in BOOLEAN : open_hdr_done(t, ok)

SpecLock == InitLock /\ [][NextLock]_vars

-----------------------------------------------------------------------------
(* Claims about the command channel *)

\* the thread is inside a grouped block: init's, or open's
InGroup(t) ==
    pc[t] \in {"init_cmd", "init_wait", "open_units", "open_units_wait",
               "open_stream", "open_hdr", "open_hdr_wait"}

\* the thread is in no call
AtRest(t) == pc[t] \in {"idle", "init_failed"}

\* C1: under every interleaving of the callers of one device (option access,
\* hardware_reset, calibration fetch, get_device_time_ms, raw send, open, init) at
\* most one firmware command is in flight at any time, and a command is sent only
\* when no other caller's command is in flight.
C1_OneCommandInFlight ==
    [][/\ Cardinality(inflight) <= 1
       /\ Cardinality(inflight') <= 1
       /\ \A t \in Threads :
             (t \in inflight' /\ t \notin inflight) => inflight = {}
      ]_vars

\* a raw command is in flight while the other caller, which has had a command of
\* its own answered before, is in no call
C1_Witness ==
    \E t \in Threads : \E u \in Threads \ {t} :
        /\ pc[t] = "raw_wait"
        /\ inflight = {t}
        /\ owner = t
        /\ pc[u] = "idle"
        /\ outcome[u] = "ok"
        /\ ready

\* C2: while a thread is inside a grouped block (open, init) it holds the exclusive
\* session, no command of another caller is in flight, and no step puts one in
\* flight: from the block's first command to its last only the block's own commands
\* reach the device.
C2_GroupedBlockNotInterleaved ==
    [][\A t \in Threads :
          InGroup(t) => /\ owner = t
                        /\ depth >= 1
                        /\ inflight \subseteq {t}
                        /\ inflight' \subseteq {t}
      ]_vars

\* open is between its first command (the depth units) and its last (the HDR
\* re-assert), with a second caller at rest
C2_Witness ==
    \E t \in Threads : \E u \in Threads \ {t} :
        /\ pc[t] = "open_hdr"
        /\ depth_units_from_firmware
        /\ hdr_to_restore
        /\ owner = t
        /\ inflight = {}
        /\ pc[u] = "idle"

\* C3: a thread that is in no call does not hold the exclusive session, whichever
\* way its last call ended (returned, or failed in the depth-units query, the stream
\* open, the HDR re-assert or a command of init); when every thread is at rest the
\* session is free, so the next command can be sent.
C3_GroupedBlockReleasesOnFailure ==
    /\ \A t \in Threads : AtRest(t) => owner # t
    /\ (\A t \in Threads : AtRest(t)) => (owner = 0 /\ depth = 0 /\ inflight = {})
    /\ depth >= 0
    /\ depth = 0 <=> owner = 0

\* open failed in the HDR re-assert and a later caller's command is in flight
C3_Witness ==
    \E t \in Threads : \E u \in Threads \ {t} :
        /\ outcome[t] = "hdr_failed"
        /\ pc[t] = "idle"
        /\ u \in inflight
        /\ owner = u

-----------------------------------------------------------------------------
(* Concurrent callers of the emitter options.  Every register access is one *)
(* firmware command; a gated option's set reads its blockers and writes its *)
(* target inside one exclusive session.                                     *)

EmitterIds == {"EMITTER_ALWAYS_ON", "EMITTER_ON_OFF"}

\* option::set is called
set_option_call(t, id, v) ==
    /\ pc[t] = "idle"
    /\ ready
    /\ id \in DOMAIN registry
    /\ call' = [call EXCEPT ![t] = [opt |-> id, val |-> v]]
    /\ pc' = [pc EXCEPT ![t] = "set_enter"]
    /\ outcome' = [outcome EXCEPT ![t] = "none"]
    /\ UNCHANGED <<advanced, hw_monitor, ready, initIdx, owner, depth, inflight>>
    /\ UNCHANGED <<cfgVars, lazyVars>>
    /\ UNCHANGED optVars

gated_set_enter(t) ==
    /\ pc[t] = "set_enter"
    /\ registry[call[t].opt].kind = "gated"
    /\ SessionFree(t)
    /\ EnterSession(t)
    /\ pc' = [pc EXCEPT ![t] = "set_check"]
    /\ UNCHANGED <<advanced, hw_monitor, ready, initIdx, inflight, outcome>>
    /\ UNCHANGED <<cfgVars, call, lazyVars>>
    /\ UNCHANGED optVars

\* the blockers are read in order: the set goes on if all read zero, fails with the
\* first nonzero blocker's reason, or with the error of the read that failed
gated_set_check(t, F) ==
    /\ pc[t] = "set_check"
    /\ SessionFree(t)
    /\ LET o == registry[call[t].opt]
           reads == BlockerReads(o.blockers, Cur, F)
       IN  IF Stops(reads) = {}
           THEN /\ pc' = [pc EXCEPT ![t] = "set_write"]
                /\ UNCHANGED <<owner, depth, outcome>>
           ELSE /\ Release(t, 1)
                /\ pc' = [pc EXCEPT ![t] = "idle"]
                /\ outcome' = [outcome EXCEPT ![t] =
                      IF reads[FirstStop(reads)].ok THEN "PreconditionBlocked"
                      ELSE reads[FirstStop(reads)].err]
    /\ UNCHANGED <<advanced, hw_monitor, ready, initIdx, inflight>>
    /\ UNCHANGED <<cfgVars, call, lazyVars>>
    /\ UNCHANGED optVars

\* the target is written and the session is left
gated_set_write(t, F) ==
    /\ pc[t] = "set_write"
    /\ SessionFree(t)
    /\ LET w == OptSet(registry[call[t].opt].target, call[t].val, Cur, F)
       IN  /\ hw' = w.st.hw
           /\ hdr' = w.st.hdr
           /\ outcome' = [outcome EXCEPT ![t] = w.res]
    /\ Release(t, 1)
    /\ pc' = [pc EXCEPT ![t] = "idle"]
    /\ UNCHANGED <<advanced, hw_monitor, ready, initIdx, inflight, last>>
    /\ UNCHANGED <<cfgVars, call, lazyVars>>

\* an option that is not gated: its set is one command
plain_set(t, F) ==
    /\ pc[t] = "set_enter"
    /\ registry[call[t].opt].kind # "gated"
    /\ SessionFree(t)
    /\ LET w == OptSet(registry[call[t].opt], call[t].val, Cur, F)
       IN  /\ hw' = w.st.hw
           /\ hdr' = w.st.hdr
           /\ outcome' = [outcome EXCEPT ![t] = w.res]
    /\ pc' = [pc EXCEPT ![t] = "idle"]
    /\ UNCHANGED <<advanced, hw_monitor, ready, initIdx, owner, depth, inflight, last>>
    /\ UNCHANGED <<cfgVars, call, lazyVars>>

\* one device per tier of the emitter options
EmitterDevices ==
    { Device(<<5, 12, 8, 100>>, Gvd(1, 2), "RS435"),
      Device(<<5, 12, 1, 0>>, Gvd(1, 2), "RS435"),
      Device(<<5, 11, 3, 0>>, Gvd(1, 2), "RS435") }

InitEmitter ==
    /\ \E d \in EmitterDevices : IsDevice(d)
    /\ registry = Registry
    /\ Quiescent
    /\ hw = InitHw(0)
    /\ \E e \in (IF hdr_registered THEN BOOLEAN ELSE {FALSE}) :
          hdr = [InitHdr EXCEPT !.enabled = e]
    /\ last = NoCall

\* the transfers that may fail during a step of the call the thread is making
EmitterFaults(t) ==
    IF call[t].opt \in DOMAIN registry
    THEN FaultSets(SetAccesses(registry[call[t].opt]))
    ELSE {{}}

NextEmitter ==
    \E t \in Threads :
        \/ \E id \in EmitterIds : \E v \in {0, 1} : set_option_call(t, id, v)
        \/ gated_set_enter(t)
        \/ \E F \in EmitterFaults(t) : gated_set_check(t, F)
        \/ \E F \in EmitterFaults(t) : gated_set_write(t, F)
        \/ \E F \in EmitterFaults(t) : plain_set(t, F)

SpecEmitter == InitEmitter /\ [][NextEmitter]_vars

\* the device has both emitter options (init registers them gated by each other)
BothEmitterOptions == EmitterIds \subseteq DOMAIN registry

\* C5: on a device that has both the Emitter-always-on and the Emitter on/off
\* option, which init registers gated by each other, under every interleaving of threads setting the two options, the
\* two registers are never both nonzero; and a thread that has passed its blocker
\* check still finds every blocker register zero when it writes.
C5_GatedCheckAtomicWithWrite ==
    BothEmitterOptions =>
       /\ ~(hw.ALWAYS_ON # 0 /\ hw.ON_OFF # 0)
       /\ \A t \in Threads :
             pc[t] = "set_write" =>
                \A i \in DOMAIN registry[call[t].opt].blockers :
                    OptGet(registry[call[t].opt].blockers[i].opt, Cur, {}).val = 0

\* one thread has passed the check of Emitter always on and is about to write 1,
\* while the other has called set of Emitter on/off to 1 and waits for the session
C5_Witness ==
    \E t \in Threads : \E u \in Threads \ {t} :
        /\ BothEmitterOptions
        /\ pc[t] = "set_write"
        /\ call[t] = [opt |-> "EMITTER_ALWAYS_ON", val |-> 1]
        /\ pc[u] = "set_enter"
        /\ call[u] = [opt |-> "EMITTER_ON_OFF", val |-> 1]
        /\ hw.ALWAYS_ON = 0
        /\ hw.ON_OFF = 0

-----------------------------------------------------------------------------
(* The lazily evaluated calibration values.  lazy<T>::operator* locks the   *)
(* value's mutex, runs the factory if nothing is cached, caches what the    *)
(* factory returns and unlocks; what the factory throws leaves through      *)
(* operator* with nothing cached.                                           *)

new_calib_firmware_version == <<5, 11, 9, 5>>

\* what each factory does: one firmware fetch, nothing, or a read of another value
Factory(l) ==
    CASE l = "color_calib_table_raw" -> "fetch"
      [] l = "coefficients_table_raw" -> "fetch"
      [] l = "new_calib_table_raw" ->
            IF VerGE(fw, new_calib_firmware_version) THEN "fetch" ELSE "empty"
      [] l = "left_right_extrinsics" -> "nested"

Top(t) == stack[t][Len(stack[t])]
OnStack(t) == {stack[t][i] : i \in DOMAIN stack[t]}
FailsSoFar ==
    fails["color_calib_table_raw"] + fails["coefficients_table_raw"]
    + fails["new_calib_table_raw"] + fails["left_right_extrinsics"]

\* a caller dereferences the lazy value l
Deref(t, l) ==
    /\ pc[t] = "idle"
    /\ ready
    /\ stack' = [stack EXCEPT ![t] = <<l>>]
    /\ pc' = [pc EXCEPT ![t] = "lazy_lock"]
    /\ outcome' = [outcome EXCEPT ![t] = "none"]
    /\ UNCHANGED <<advanced, hw_monitor, ready, initIdx, owner, depth, inflight>>
    /\ UNCHANGED <<call, seen, cache, mutex, calls, fails, fetches>>
    /\ UNCHANGED cfgVars
    /\ UNCHANGED optVars

get_stereo_baseline_mm_direct(t) ==
    /\ pc[t] = "idle"
    /\ ready
    /\ stack' = [stack EXCEPT ![t] = <<"coefficients_table_raw">>]
    /\ calls' = [calls EXCEPT !["coefficients_table_raw"] = @ + 1]
    /\ pc' = [pc EXCEPT ![t] = "factory"]
    /\ outcome' = [outcome EXCEPT ![t] = "none"]
    /\ UNCHANGED <<advanced, hw_monitor, ready, initIdx, owner, depth, inflight>>
    /\ UNCHANGED <<call, seen, cache, mutex, fails, fetches>>
    /\ UNCHANGED cfgVars
    /\ UNCHANGED optVars
get_stereo_baseline_mm(t) == Deref(t, "coefficients_table_raw")
\* the new calibration table first
get_intrinsics(t) == Deref(t, "new_calib_table_raw")
get_color_intrinsics(t) == Deref(t, "color_calib_table_raw")
\* the extrinsics graph reads the registered left-to-right extrinsics
get_extrinsics(t) == Deref(t, "left_right_extrinsics")

\* the value v of the innermost lazy value is handed to whoever dereferenced it:
\* the factory of the value below it on the stack, or the caller
Hand(t, v) ==
    /\ seen' = [seen EXCEPT ![t] = [lazy |-> Top(t), val |-> v]]
    /\ IF Len(stack[t]) > 1
       THEN /\ stack' = [stack EXCEPT ![t] = SubSeq(@, 1, Len(@) - 1)]
            /\ pc' = [pc EXCEPT ![t] = "check_calib"]
            /\ UNCHANGED outcome
       ELSE /\ stack' = [stack EXCEPT ![t] = <<>>]
            /\ pc' = [pc EXCEPT ![t] = "returned"]
            /\ UNCHANGED outcome

\* the factory of the innermost lazy value returned v
Cached(t, v) ==
    /\ cache' = [cache EXCEPT ![Top(t)] = v]
    /\ mutex' = [mutex EXCEPT ![Top(t)] = 0]
    /\ Hand(t, v)
    /\ UNCHANGED <<calls, fails>>

\* the factory of the innermost lazy value threw: the exception leaves through every
\* operator* the thread is in
Thrown(t) ==
    /\ FailsSoFar < MaxFails
    /\ fails' = [l \in Lazies |-> IF l \in OnStack(t) THEN fails[l] + 1 ELSE fails[l]]
    /\ mutex' = [l \in Lazies |-> IF l \in OnStack(t) THEN 0 ELSE mutex[l]]
    /\ stack' = [stack EXCEPT ![t] = <<>>]
    /\ pc' = [pc EXCEPT ![t] = "idle"]
    /\ outcome' = [outcome EXCEPT ![t] = "failed"]
    /\ seen' = [seen EXCEPT ![t] = NoSeen]
    /\ UNCHANGED <<cache, calls>>

\* operator*: the mutex is taken; a cached value is handed out, else the factory runs
lazy_lock(t) ==
    /\ pc[t] = "lazy_lock"
    /\ mutex[Top(t)] = 0
    /\ IF cache[Top(t)] # 0
       THEN /\ Hand(t, cache[Top(t)])
            /\ UNCHANGED <<cache, mutex, calls>>
       ELSE /\ mutex' = [mutex EXCEPT ![Top(t)] = t]
            /\ calls' = [calls EXCEPT ![Top(t)] = @ + 1]
            /\ pc' = [pc EXCEPT ![t] = "factory"]
            /\ UNCHANGED <<stack, seen, cache, outcome>>
    /\ UNCHANGED <<advanced, hw_monitor, ready, initIdx, owner, depth, inflight>>
    /\ UNCHANGED <<call, fails, fetches>>
    /\ UNCHANGED cfgVars
    /\ UNCHANGED optVars

\* get_raw_calibration_table / get_new_calibration_table: the command is sent
factory_fetch(t) ==
    /\ pc[t] = "factory"
    /\ Factory(Top(t)) = "fetch"
    /\ HwmSend(t)
    /\ fetches' = [fetches EXCEPT ![Top(t)] = @ + 1]
    /\ pc' = [pc EXCEPT ![t] = "fetch_wait"]
    /\ UNCHANGED <<advanced, hw_monitor, ready, initIdx, outcome>>
    /\ UNCHANGED <<call, stack, seen, cache, mutex, calls, fails>>
    /\ UNCHANGED cfgVars
    /\ UNCHANGED optVars

\* a fetch that returns what it has when the command failed
factory_fetch_done_swallowing(t, ok) ==
    /\ pc[t] = "fetch_wait"
    /\ HwmDone(t)
    /\ Release(t, 1)
    /\ IF ok
       THEN Cached(t, calls[Top(t)])
       ELSE /\ FailsSoFar < MaxFails
            /\ fails' = [fails EXCEPT ![Top(t)] = @ + 1]
            /\ cache' = [cache EXCEPT ![Top(t)] = calls[Top(t)]]
            /\ mutex' = [mutex EXCEPT ![Top(t)] = 0]
            /\ Hand(t, calls[Top(t)])
            /\ UNCHANGED calls
    /\ UNCHANGED <<advanced, hw_monitor, ready, initIdx>>
    /\ UNCHANGED <<call, fetches>>
    /\ UNCHANGED cfgVars
    /\ UNCHANGED optVars
\* the table is back and is the factory's result, or the command failed and send threw
factory_fetch_done(t, ok) ==
    /\ pc[t] = "fetch_wait"
    /\ HwmDone(t)
    /\ Release(t, 1)
    /\ IF ok THEN Cached(t, calls[Top(t)]) ELSE Thrown(t)
    /\ UNCHANGED <<advanced, hw_monitor, ready, initIdx>>
    /\ UNCHANGED <<call, fetches>>
    /\ UNCHANGED cfgVars
    /\ UNCHANGED optVars

\* get_new_calibration_table below 5.11.9.5: return {}, no command
factory_empty(t) ==
    /\ pc[t] = "factory"
    /\ Factory(Top(t)) = "empty"
    /\ Cached(t, calls[Top(t)])
    /\ UNCHANGED <<advanced, hw_monitor, ready, initIdx, owner, depth, inflight>>
    /\ UNCHANGED <<call, fetches>>
    /\ UNCHANGED cfgVars
    /\ UNCHANGED optVars

\* the extrinsics factory dereferences the coefficients table
factory_nested(t) ==
    /\ pc[t] = "factory"
    /\ Factory(Top(t)) = "nested"
    /\ stack' = [stack EXCEPT ![t] = Append(@, "coefficients_table_raw")]
    /\ pc' = [pc EXCEPT ![t] = "lazy_lock"]
    /\ UNCHANGED <<advanced, hw_monitor, ready, initIdx, owner, depth, inflight, outcome>>
    /\ UNCHANGED <<call, seen, cache, mutex, calls, fails, fetches>>
    /\ UNCHANGED cfgVars
    /\ UNCHANGED optVars

\* check_calib<coefficients_table> in the extrinsics factory: the table is valid and
\* the extrinsics are the factory's result, or it is not and check_calib throws
factory_check_calib(t, ok) ==
    /\ pc[t] = "check_calib"
    /\ IF ok THEN Cached(t, calls[Top(t)]) ELSE Thrown(t)
    /\ UNCHANGED <<advanced, hw_monitor, ready, initIdx, owner, depth, inflight>>
    /\ UNCHANGED <<call, fetches>>
    /\ UNCHANGED cfgVars
    /\ UNCHANGED optVars

\* the caller has its value.  Only get_intrinsics reads the new calibration table:
\* it falls back to the coefficients table when the new table has no entry for the
\* resolution.  Every other caller returns.
caller_return(t, found) ==
    /\ pc[t] = "returned"
    /\ IF seen[t].lazy = "new_calib_table_raw" /\ ~found
       THEN /\ stack' = [stack EXCEPT ![t] = <<"coefficients_table_raw">>]
            /\ pc' = [pc EXCEPT ![t] = "lazy_lock"]
            /\ UNCHANGED outcome
       ELSE /\ pc' = [pc EXCEPT ![t] = "idle"]
            /\ outcome' = [outcome EXCEPT ![t] = "ok"]
            /\ UNCHANGED stack
    /\ seen' = [seen EXCEPT ![t] = NoSeen]
    /\ UNCHANGED <<advanced, hw_monitor, ready, initIdx, owner, depth, inflight>>
    /\ UNCHANGED <<call, cache, mutex, calls, fails, fetches>>
    /\ UNCHANGED cfgVars
    /\ UNCHANGED optVars

LazyDevices ==
    { Device(<<5, 12, 8, 100>>, Gvd(1, 2), "RS435"),
      Device(<<5, 9, 15, 1>>, Gvd(1, 2), "RS435") }

InitLazy ==
    /\ \E d \in LazyDevices : IsDevice(d)
    /\ registry = Registry
    /\ Quiescent
    /\ hw = InitHw(0)
    /\ hdr = InitHdr
    /\ last = NoCall

NextLazy ==
    \E t \in Threads :
        \/ get_stereo_baseline_mm(t)
        \/ get_intrinsics(t)
        \/ get_color_intrinsics(t)
        \/ get_extrinsics(t)
        \/ lazy_lock(t)
        \/ factory_fetch(t)
        \/ \E ok \in BOOLEAN : factory_fetch_done(t, ok)
        \/ factory_empty(t)
        \/ factory_nested(t)
        \/ \E ok \in BOOLEAN : factory_check_calib(t, ok)
        \/ \E found \in BOOLEAN : caller_return(t, found)

SpecLazy == InitLazy /\ [][NextLazy]_vars

-----------------------------------------------------------------------------
(* Claims about the lazy values *)

\* the factory of l is running
InFactory(l) == mutex[l] # 0

\* l has been evaluated once for all: every invocation of its factory but the one
\* that is running or has filled the cache has failed, and its factory has made one
\* fetch for each invocation if it is a fetching one, and none otherwise
EvaluatedOnce(l) ==
    /\ calls[l] = fails[l] + (IF cache[l] # 0 \/ InFactory(l) THEN 1 ELSE 0)
    /\ fetches[l] <= calls[l]
    /\ (Factory(l) = "fetch" /\ ~InFactory(l)) => fetches[l] = calls[l]
    /\ Factory(l) # "fetch" => fetches[l] = 0

\* whoever was handed a lazy value holds its cached result
HandedCachedResult ==
    \A t \in Threads :
        seen[t].lazy # "" =>
           (cache[seen[t].lazy] # 0 /\ seen[t].val = cache[seen[t].lazy])

\* C9 as stated: once a lazy value is cached and no invocation of its factory has
\* failed, its factory has been invoked exactly once and exactly one firmware fetch
\* has been made for it.
C9_OneInvocationOneFetch ==
    \A l \in Lazies :
        (cache[l] # 0 /\ fails[l] = 0) => (calls[l] = 1 /\ fetches[l] = 1)

\* C9, amended: for each lazy value, under every interleaving of threads
\* dereferencing it, the factory is running in at most one thread, every invocation
\* but the running or the cached one has failed (so exactly one invocation when none
\* fails), every caller is handed the cached result, a cached result never changes
\* and the factory is not invoked again once it is cached.  An invocation makes at
\* most one firmware fetch: one for the coefficients and RGB tables, one for the new
\* calibration table from firmware 5.11.9.5 on and none below it, and none for the
\* extrinsics, whose factory reads the coefficients table's lazy value instead.
C9_ExactlyOneFactoryInvocation ==
    [][/\ \A l \in Lazies :
             /\ EvaluatedOnce(l)'
             /\ cache[l] # 0 => (cache'[l] = cache[l] /\ calls'[l] = calls[l])
       /\ HandedCachedResult'
      ]_vars

\* one thread is in the factory of the coefficients table, its fetch in flight, while
\* the other has dereferenced the same value and waits at its mutex
C9_Witness ==
    \E t \in Threads : \E u \in Threads \ {t} :
        /\ pc[t] = "fetch_wait"
        /\ stack[t] = <<"coefficients_table_raw">>
        /\ mutex["coefficients_table_raw"] = t
        /\ pc[u] = "lazy_lock"
        /\ stack[u] = <<"coefficients_table_raw">>
        /\ calls["coefficients_table_raw"] = 1

\* C10: in every step in which a factory invocation fails, the thread that
\* dereferenced the value gets the failure, the value's cache stays empty and its
\* mutex is free; and a thread that then passes the mutex of a value whose cache is
\* empty runs the factory again.
C10_FactoryFailureNotCached ==
    [][/\ \A l \in Lazies :
             fails'[l] = fails[l] + 1 =>
                /\ cache[l] = 0
                /\ cache'[l] = 0
                /\ mutex'[l] = 0
                /\ \E t \in Threads :
                      /\ l \in OnStack(t)
                      /\ stack'[t] = <<>>
                      /\ pc'[t] = "idle"
                      /\ outcome'[t] = "failed"
       /\ \A t \in Threads :
             ( /\ pc[t] = "lazy_lock"
               /\ pc'[t] # "lazy_lock"
               /\ fails[Top(t)] > 0
               /\ cache[Top(t)] = 0 )
             => /\ pc'[t] = "factory"
                /\ calls'[Top(t)] = calls[Top(t)] + 1
       /\ \A l \in Lazies : fails[l] > 0 /\ calls[l] = fails[l] => cache[l] = 0
      ]_vars

\* the fetch of the coefficients table failed for one caller, and the next caller's
\* dereference ran the factory again and was handed the second invocation's result
C10_Witness ==
    \E t \in Threads : \E u \in Threads \ {t} :
        /\ outcome[t] = "failed"
        /\ pc[t] = "idle"
        /\ fails["coefficients_table_raw"] = 1
        /\ calls["coefficients_table_raw"] = 2
        /\ cache["coefficients_table_raw"] = 2
        /\ pc[u] = "returned"
        /\ seen[u] = [lazy |-> "coefficients_table_raw", val |-> 2]

-----------------------------------------------------------------------------
(* Claims about the HDR re-assert of open *)

HdrEnabledAtOpen == hdr_registered /\ hdr.enabled

\* C11: in every open, the step after the stream open sends the HDR-enabled write
\* if and only if the device has a coordinator whose enabled flag is set: the write
\* is sent only from there, by the thread that holds the grouped session, and open
\* then returns with the hardware's HDR flag at 1 or fails with the write; with the
\* flag clear, or with no coordinator, open returns from that step with no command
\* sent and the hardware untouched.
C11_OpenReassertsHdr ==
    [][/\ \A t \in Threads :
             /\ (pc[t] = "open_hdr" /\ pc'[t] # "open_hdr") =>
                   IF HdrEnabledAtOpen
                   THEN /\ pc'[t] = "open_hdr_wait"
                        /\ inflight' = {t}
                        /\ owner' = t
                        /\ depth' = 2
                   ELSE /\ pc'[t] = "idle"
                        /\ outcome'[t] = "ok"
                        /\ inflight' = inflight
                        /\ hw' = hw
             /\ (pc'[t] = "open_hdr_wait" /\ pc[t] # "open_hdr_wait") => pc[t] = "open_hdr"
             /\ (pc'[t] = "open_hdr" /\ pc[t] # "open_hdr") => pc[t] = "open_stream"
             /\ (pc[t] = "open_hdr_wait" /\ pc'[t] # "open_hdr_wait") =>
                   /\ HdrEnabledAtOpen
                   /\ pc'[t] = "idle"
                   /\ owner' = 0
                   /\ \/ outcome'[t] = "ok" /\ hw'.HDR_FW = 1
                      \/ outcome'[t] = "hdr_failed" /\ hw' = hw
       /\ hw' # hw => \E t \in Threads : pc[t] = "open_hdr_wait"
      ]_vars

\* the stream open is done and the HDR write of an open made with the flag set is in
\* flight inside the grouped session, the hardware's flag still clear
C11_Witness ==
    \E t \in Threads :
        /\ pc[t] = "open_hdr_wait"
        /\ hdr.enabled
        /\ hw.HDR_FW = 0
        /\ inflight = {t}
        /\ owner = t
        /\ depth = 2

-----------------------------------------------------------------------------
(* The option registry over the firmware versions and capabilities a device *)
(* may report                                                               *)

\* one firmware version at and one below each threshold, and one above them all
FwVersions ==
    { <<5, 9, 15, 1>>, <<5, 10, 4, 0>>, <<5, 10, 9, 0>>, <<5, 11, 3, 0>>,
      <<5, 12, 1, 0>>, <<5, 12, 8, 99>>, <<5, 12, 8, 100>>, <<5, 13, 0, 50>> }

\* depth_sensor_type: 1 rolling shutter, 2 global shutter
RegistryDevices ==
    { [fw |-> v, gvd |-> Gvd(projector, shutter), pid |-> "RS435", experimental |-> e] :
        v \in FwVersions, projector \in {0, 1}, shutter \in {1, 2}, e \in BOOLEAN }

InitRegistry ==
    /\ \E d \in RegistryDevices : IsDevice(d)
    /\ registry = Registry
    /\ Quiescent
    /\ hw = InitHw(0)
    /\ hdr = InitHdr
    /\ last = NoCall

RegistryIds == GatedIds \cup {"EXPOSURE", "GAIN"}

\* callers of the registered options, every transfer succeeding
NextRegistry ==
    \/ \E id \in DOMAIN registry \cap RegistryIds : \E v \in SetValues(id) :
          SetOption(id, v, {})
    \/ \E id \in DOMAIN registry \cap RegistryIds : QueryOption(id, {})

SpecRegistry == InitRegistry /\ [][NextRegistry]_vars

HdrOptionIds == {"SEQUENCE_ID", "SEQUENCE_NAME", "SEQUENCE_SIZE", "HDR_ENABLED"}

\* C12: on a device whose firmware version is below the HDR threshold the registered
\* Exposure and Gain options are each the auto-disabling control over the raw control
\* and the raw auto-exposure flag, and no HDR option (sequence id, sequence name,
\* sequence size, HDR enabled) is in the registry.
C12_BelowHdrThreshold ==
    ~VerGE(fw, hdr_firmware_version) =>
       /\ registry["EXPOSURE"] = AutoDisabling(RawControl("EXPOSURE"), RawControl("AE"))
       /\ registry["GAIN"] = AutoDisabling(RawControl("GAIN"), RawControl("AE"))
       /\ HdrOptionIds \cap DOMAIN registry = {}

\* just below the threshold, a set of Exposure through the registry went to the raw
\* control and cleared the auto-exposure flag that a set had raised before
C12_Witness ==
    /\ fw = <<5, 12, 8, 99>>
    /\ last.op = "set"
    /\ last.opt = "EXPOSURE"
    /\ last.res = "ok"
    /\ last.log = <<Access("w", "AE", 0, TRUE), Access("w", "EXPOSURE", MaxVal, TRUE)>>
    /\ hw.EXPOSURE = MaxVal
    /\ hw.AE = 0

HdrThresholdGlobalShutter ==
    VerGE(fw, hdr_firmware_version) /\ HasCaps({"CAP_GLOBAL_SHUTTER"})

\* C13: on a device at or above the HDR threshold with a global shutter the HDR options
\* are in the registry and the registered Exposure and Gain options are conditional
\* options whose manual branch is the auto-disabling control over the raw control and
\* the auto-exposure flag and whose HDR branch is the coordinator's control.
C13_ConditionalOverAutoDisabling ==
    HdrThresholdGlobalShutter =>
       /\ HdrOptionIds \subseteq DOMAIN registry
       /\ registry["EXPOSURE"] =
             Conditional(AutoDisabling(RawControl("EXPOSURE"), RawControl("AE")),
                         HdrOption("EXPOSURE", exposure_range))
       /\ registry["GAIN"] =
             Conditional(AutoDisabling(RawControl("GAIN"), RawControl("AE")),
                         HdrOption("GAIN", gain_range))

\* what a set of Exposure does on such a device while HDR is enabled and the
\* auto-exposure flag is up: the registered option writes the flag before it routes
C13_SetInHdrModeWritesAutoExposure ==
    /\ HdrThresholdGlobalShutter
    /\ last.op = "set"
    /\ last.opt = "EXPOSURE"
    /\ hdr.enabled
    /\ Len(last.log) > 0
    /\ last.log[1] = Access("w", "AE", 0, TRUE)

\* C14: the HDR composition is registered if and only if the firmware version is at or
\* above the HDR threshold and the capabilities contain global shutter; a device at or
\* above the threshold without global shutter has Exposure and Gain as the plain
\* auto-disabling control over the raw control and no HDR option.
C14_HdrRequiresGlobalShutter ==
    /\ HdrThresholdGlobalShutter => HdrOptionIds \subseteq DOMAIN registry
    /\ ~HdrThresholdGlobalShutter =>
          /\ registry["EXPOSURE"] = AutoDisabling(RawControl("EXPOSURE"), RawControl("AE"))
          /\ registry["GAIN"] = AutoDisabling(RawControl("GAIN"), RawControl("AE"))
          /\ HdrOptionIds \cap DOMAIN registry = {}

EmitterOnOffGate == VerGE(fw, emitter_firmware_version) /\ HasCaps(emitter_mask)

\* the options a registered option is gated by, none when it is not a gated option
BlockerOptions(o) ==
    IF o.kind = "gated" THEN {o.blockers[i].opt : i \in DOMAIN o.blockers} ELSE {}

ControlOf(o) == IF o.kind = "gated" THEN o.target ELSE o

\* C15: on every device that passes the emitter on/off gate the registered Emitter
\* on/off option is the one of the first matching tier, taken top-down: gated by HDR
\* enabled and emitter always on when the firmware is at or above the HDR threshold,
\* else gated by emitter always on when the middle threshold and global shutter hold,
\* else the control with no blocker.
C15_EmitterOnOffTiers ==
    EmitterOnOffGate =>
       /\ "EMITTER_ON_OFF" \in DOMAIN registry
       /\ ControlOf(registry["EMITTER_ON_OFF"]) = RawControl("ON_OFF")
       /\ BlockerOptions(registry["EMITTER_ON_OFF"]) =
             IF VerGE(fw, <<5, 12, 8, 100>>)
             THEN {HdrOption("HDR_ENABLED", hdr_enable_range), RawControl("ALWAYS_ON")}
             ELSE IF VerGE(fw, <<5, 12, 1, 0>>) /\ HasCaps({"CAP_GLOBAL_SHUTTER"})
             THEN {RawControl("ALWAYS_ON")}
             ELSE {}
       /\ registry["EMITTER_ON_OFF"].kind = "gated" <=> VerGE(fw, <<5, 12, 1, 0>>)

\* on the top tier a set of Emitter on/off was stopped by the HDR blocker, which the
\* lower tiers do not attach
C15_Witness ==
    /\ EmitterOnOffGate
    /\ last.op = "set"
    /\ last.opt = "EMITTER_ON_OFF"
    /\ last.res = "PreconditionBlocked"
    /\ last.reason = "Emitter ON/OFF cannot be set while HDR is enabled"
    /\ hw.ON_OFF = 0

\* C16: the Emitter on/off option is in the registry if and only if the firmware
\* version is at or above the emitter threshold and the capabilities contain both
\* global shutter and active projector, whatever the experimental flag.
C16_EmitterOnOffOnlyInsideGate ==
    "EMITTER_ON_OFF" \in DOMAIN registry <=> EmitterOnOffGate

\* an experimental build outside the gate on which Emitter on/off was set
C16_ExperimentalEmitterOnOffSet ==
    /\ ~EmitterOnOffGate
    /\ experimental
    /\ last.op = "set"
    /\ last.opt = "EMITTER_ON_OFF"
    /\ last.res = "ok"
    /\ hw.ON_OFF = 1

\* C17: when the HDR options are registered, the registry entry of auto-exposure enable
\* is the option gated by HDR enabled, which replaced the raw option registered before
\* it; a set of auto-exposure enable through the registry while HDR is enabled is
\* refused and leaves the auto-exposure flag as it was.
C17_GatedAutoExposureReplacesRaw ==
    [][hdr_registered =>
          /\ registry["ENABLE_AUTO_EXPOSURE"] =
                Gated(RawControl("AE"),
                      <<Blocker(HdrOption("HDR_ENABLED", hdr_enable_range),
                                "Auto Exposure cannot be set while HDR is enabled")>>)
          /\ ( /\ last'.op = "set"
               /\ last'.opt = "ENABLE_AUTO_EXPOSURE"
               /\ hdr.enabled )
             => /\ last'.res = "PreconditionBlocked"
                /\ last'.log = <<Access("r", "hdr_config", 1, TRUE)>>
                /\ hw' = hw
                /\ hdr' = hdr
      ]_vars

\* auto-exposure enable was set to 1 while HDR was enabled and the flag stayed 0
C17_Witness ==
    /\ hdr_registered
    /\ hdr.enabled
    /\ last.op = "set"
    /\ last.opt = "ENABLE_AUTO_EXPOSURE"
    /\ last.val = 1
    /\ last.res = "PreconditionBlocked"
    /\ hw.AE = 0

-----------------------------------------------------------------------------
(* Calls on the options of the HDR coordinator, with values in and out of range *)

HdrDevices == {d \in OptDevices : VerGE(d.fw, hdr_firmware_version)}

\* the hdr_option objects the constructor makes over hdr_cfg
HdrCoordinatorOptions ==
    [SEQUENCE_NAME |-> registry["SEQUENCE_NAME"],
     SEQUENCE_SIZE |-> registry["SEQUENCE_SIZE"],
     SEQUENCE_ID |-> registry["SEQUENCE_ID"],
     HDR_ENABLED |-> registry["HDR_ENABLED"],
     HDR_EXPOSURE |-> hdr_exposure_option,
     HDR_GAIN |-> hdr_gain_option]

\* what a caller may pass: the range of the option and one value beyond each end
AnyValues(range) == (range.min - 1)..(range.max + 1)

InitHdrCalls ==
    /\ \E d \in HdrDevices : IsDevice(d)
    /\ registry = Registry
    /\ Quiescent
    /\ hw = InitHw(0)
    /\ hdr = InitHdr
    /\ last = NoCall

\* hdr_option::set
SetHdrOption(name, v, F) ==
    /\ LET r == OptSet(HdrCoordinatorOptions[name], v, Cur, F)
       IN  /\ hw' = r.st.hw
           /\ hdr' = r.st.hdr
           /\ last' = [op |-> "set", opt |-> name, val |-> v, res |-> r.res,
                       reason |-> r.reason, log |-> r.log]
    /\ UNCHANGED <<cfgVars, call, lazyVars>>
    /\ UNCHANGED lockVars

\* hdr_option::query
QueryHdrOption(name) ==
    /\ LET g == OptGet(HdrCoordinatorOptions[name], Cur, {})
       IN  last' = [op |-> "get", opt |-> name, val |-> g.val, res |-> g.err,
                    reason |-> "", log |-> g.log]
    /\ UNCHANGED <<cfgVars, hw, hdr, call, lazyVars>>
    /\ UNCHANGED lockVars

NextHdrCalls ==
    \/ \E name \in DOMAIN HdrCoordinatorOptions :
          \E v \in AnyValues(HdrCoordinatorOptions[name].range) :
             \E F \in FaultSets(SetAccesses(HdrCoordinatorOptions[name])) :
                SetHdrOption(name, v, F)
    \/ \E name \in DOMAIN HdrCoordinatorOptions : QueryHdrOption(name)

SpecHdrCalls == InitHdrCalls /\ [][NextHdrCalls]_vars

\* the range each coordinator option is declared with
DeclaredRange(name) ==
    CASE name = "SEQUENCE_NAME" -> 0..3
      [] name = "SEQUENCE_SIZE" -> 2..2
      [] name = "SEQUENCE_ID" -> 0..2
      [] name = "HDR_ENABLED" -> 0..1
      [] name = "HDR_EXPOSURE" -> exposure_range.min..exposure_range.max
      [] name = "HDR_GAIN" -> gain_range.min..gain_range.max

\* C18: a set on an option of the HDR coordinator (sequence id, sequence name, sequence
\* size, HDR enabled, HDR exposure, HDR gain) with a value outside the range the option
\* is declared with fails with SequenceOutOfRange, writes no firmware command and
\* leaves the coordinator's state as it was.
C18_OutOfRangeRejectedBeforeWrite ==
    [][\A name \in DOMAIN HdrCoordinatorOptions :
          ( /\ last'.op = "set"
            /\ last'.opt = name
            /\ last'.val \notin DeclaredRange(name) )
          => /\ last'.res = "SequenceOutOfRange"
             /\ last'.log = <<>>
             /\ hw' = hw
             /\ hdr' = hdr
      ]_vars

\* HDR was enabled, then the sequence id was set beyond its range: the call failed
\* and the coordinator still has the id it had
C18_Witness ==
    /\ last.op = "set"
    /\ last.opt = "SEQUENCE_ID"
    /\ last.val = 3
    /\ last.res = "SequenceOutOfRange"
    /\ hdr.enabled
    /\ hdr.id = 2
    /\ hw.HDR_FW = 1

-----------------------------------------------------------------------------
(* The operations of the device that are one command to the hardware        *)
(* monitor, one call at a time: what each call sends and what it returns.   *)
(* The log of a call holds one entry per command sent, with the response.   *)

\* the longest response the firmware is taken to return to the clock register read
MaxResponse == 5
\* byte values of a response (the top byte is kept below 128)
TickBytes == {0, 1, 127}

RECURSIVE ResponsesOfLen(_)
ResponsesOfLen(n) ==
    IF n = 0 THEN {<<>>}
    ELSE {Append(r, b) : r \in ResponsesOfLen(n - 1), b \in TickBytes}
Responses == UNION {ResponsesOfLen(n) : n \in 0..MaxResponse}

\* sizeof(uint32_t)
TickSize == 4
\* *(uint32_t*)res.data(): the first four bytes, least significant first
TickCount(res) == res[1] + 256 * res[2] + 65536 * res[3] + 16777216 * res[4]

\* dt * TIMESTAMP_USEC_TO_MSEC, as whole milliseconds and the microseconds beyond them
UsecPerMsec == 1000
UsecToMsec(dt) == [ms |-> dt \div UsecPerMsec, usec |-> dt % UsecPerMsec]
\* the value of a call that returns no time
NoTime == UsecToMsec(0)

Sent(opcode, res, ok) == Access("send", opcode, IF ok THEN res ELSE <<>>, ok)

MonitorUnchanged ==
    UNCHANGED <<cfgVars, hw, hdr, call, lazyVars, advanced, ready, pc, initIdx,
                owner, depth, inflight, outcome>>

Returned(op, val, res, log) ==
    /\ last' = [op |-> op, opt |-> "", val |-> val, res |-> res, reason |-> "",
                log |-> log]
    /\ UNCHANGED hw_monitor
    /\ MonitorUnchanged

\* _hw_monitor = std::make_shared<hw_monitor>(...)
create_hw_monitor ==
    /\ ~hw_monitor
    /\ hw_monitor' = TRUE
    /\ UNCHANGED last
    /\ MonitorUnchanged

\* one call that is _hw_monitor->send(cmd) and nothing else
SendOnce(op, opcode, ok) ==
    /\ hw_monitor
    /\ Returned(op, NoTime, IF ok THEN "ok" ELSE "TransportError", <<Sent(opcode, <<>>, ok)>>)

\* a failed command sent again
hardware_reset_call_retrying(ok) ==
    /\ hw_monitor
    /\ Returned("hardware_reset", NoTime, "ok",
                IF ok THEN <<Sent("HWRST", <<>>, TRUE)>>
                ELSE <<Sent("HWRST", <<>>, FALSE), Sent("HWRST", <<>>, TRUE)>>)
hardware_reset_call(ok) == SendOnce("hardware_reset", "HWRST", ok)
send_receive_raw_data_call(ok) == SendOnce("send_receive_raw_data", "raw", ok)
get_raw_calibration_table_call(ok) == SendOnce("get_raw_calibration_table", "GETINTCAL", ok)

get_new_calibration_table_call(ok) ==
    IF VerGE(fw, new_calib_firmware_version)
    THEN SendOnce("get_new_calibration_table", "RECPARAMSGET", ok)
    ELSE hw_monitor /\ ok /\ Returned("get_new_calibration_table", NoTime, "ok", <<>>)

\* the response taken as a tick count whatever its length
get_device_time_ms_call_unchecked(res, ok) ==
    IF ~hw_monitor
    THEN ok /\ res = <<>> /\ Returned("get_device_time_ms", NoTime, "wrong_api_call_sequence", <<>>)
    ELSE IF ~ok
    THEN res = <<>> /\ Returned("get_device_time_ms", NoTime, "TransportError",
                                <<Sent("MRD", res, FALSE)>>)
    ELSE Returned("get_device_time_ms", NoTime, "ok", <<Sent("MRD", res, TRUE)>>)
get_device_time_ms_call(res, ok) ==
    IF ~hw_monitor
    THEN ok /\ res = <<>> /\ Returned("get_device_time_ms", NoTime, "wrong_api_call_sequence", <<>>)
    ELSE IF ~ok
    THEN res = <<>> /\ Returned("get_device_time_ms", NoTime, "TransportError",
                                <<Sent("MRD", res, FALSE)>>)
    ELSE IF Len(res) < TickSize
    THEN Returned("get_device_time_ms", NoTime, "runtime_error", <<Sent("MRD", res, TRUE)>>)
    ELSE Returned("get_device_time_ms", UsecToMsec(TickCount(res)), "ok",
                  <<Sent("MRD", res, TRUE)>>)

\* the device before and after its hardware monitor is made
InitMonitor ==
    /\ \E d \in LockDevices : IsDevice(d)
    /\ registry = Registry
    /\ hw = InitHw(0)
    /\ hdr = InitHdr
    /\ last = [NoCall EXCEPT !.val = NoTime]
    /\ call = NoCalls
    /\ LazyFresh
    /\ advanced = FALSE
    /\ hw_monitor = FALSE
    /\ ready = FALSE
    /\ pc = [t \in Threads |-> "idle"]
    /\ initIdx = 0
    /\ owner = 0
    /\ depth = 0
    /\ inflight = {}
    /\ outcome = [t \in Threads |-> "none"]

NextMonitor ==
    \/ create_hw_monitor
    \/ \E ok \in BOOLEAN : hardware_reset_call(ok)
    \/ \E ok \in BOOLEAN : send_receive_raw_data_call(ok)
    \/ \E ok \in BOOLEAN : get_raw_calibration_table_call(ok)
    \/ \E ok \in BOOLEAN : get_new_calibration_table_call(ok)
    \/ \E res \in Responses : \E ok \in BOOLEAN : get_device_time_ms_call(res, ok)

SpecMonitor == InitMonitor /\ [][NextMonitor]_vars

TimeCall == last'.op = "get_device_time_ms"
Failed == last'.res # "ok"
SendFailed == \E k \in DOMAIN last'.log : ~last'.log[k].ok
ShortResponse ==
    \E k \in DOMAIN last'.log : last'.log[k].ok /\ Len(last'.log[k].val) < 4

\* C19 as stated: get_device_time fails exactly when the hardware monitor is not yet
\* there or the response to the register read is shorter than 4 bytes; when the
\* monitor is not there no command is sent, otherwise exactly one register read is
\* sent and the value returned is the tick count times the scale factor.
C19_FailsExactlyOnTwoCauses ==
    [][TimeCall =>
          /\ Failed <=> (~hw_monitor \/ ShortResponse)
          /\ ~hw_monitor => last'.log = <<>>
          /\ hw_monitor => Len(last'.log) = 1 /\ last'.log[1].reg = "MRD"
      ]_vars

\* C19, amended: get_device_time fails exactly when the hardware monitor is not yet
\* there, the register read fails in transport, or its response is shorter than 4
\* bytes; when the monitor is not there no command is sent, otherwise exactly one
\* register read is sent, and a call that succeeds returns the tick count of the first
\* four bytes, least significant first, in milliseconds (a thousandth per tick).
C19_FailsOnThreeCauses ==
    [][TimeCall =>
          /\ Failed <=> (~hw_monitor \/ SendFailed \/ ShortResponse)
          /\ ~hw_monitor => last'.log = <<>>
          /\ hw_monitor => Len(last'.log) = 1 /\ last'.log[1].reg = "MRD"
          /\ ~Failed =>
                LET res == last'.log[1].val
                IN  /\ last'.val.usec \in 0..999
                    /\ 1000 * last'.val.ms + last'.val.usec
                          = res[1] + 256 * (res[2] + 256 * (res[3] + 256 * res[4]))
      ]_vars

\* a five-byte response whose first four bytes are 65792 ticks: 65.792 ms
C19_Witness ==
    /\ last.op = "get_device_time_ms"
    /\ last.res = "ok"
    /\ last.log = <<Access("send", "MRD", <<0, 1, 1, 0, 127>>, TRUE)>>
    /\ last.val = [ms |-> 65, usec |-> 792]

HwmOps == {"hardware_reset", "get_raw_calibration_table", "get_new_calibration_table",
           "get_device_time_ms", "send_receive_raw_data"}

\* C20 as stated: every operation backed by the hardware monitor (hardware_reset, raw
\* calibration fetch, new calibration fetch, get_device_time, raw send) sends its
\* command exactly once per call, and a transport failure is neither retried nor
\* swallowed: the call fails with it.
C20_ExactlyOneSendPerCall ==
    [][last'.op \in HwmOps =>
          /\ Len(last'.log) = 1
          /\ SendFailed => last'.res = "TransportError"
      ]_vars

\* C20, amended: every such operation sends at most one command per call, and exactly
\* one unless it is get_device_time before the hardware monitor is there or the new
\* calibration fetch on a firmware older than 5.11.9.5, which send none; a transport
\* failure is neither retried nor swallowed: the call fails with it, and only then.
C20_AtMostOneSendPerCall ==
    [][last'.op \in HwmOps =>
          /\ Len(last'.log) =
                IF \/ last'.op = "get_device_time_ms" /\ ~hw_monitor
                   \/ last'.op = "get_new_calibration_table" /\ ~VerGE(fw, <<5, 11, 9, 5>>)
                THEN 0 ELSE 1
          /\ SendFailed <=> last'.res = "TransportError"
      ]_vars

\* a hardware reset whose one command failed in transport
C20_Witness ==
    /\ last.op = "hardware_reset"
    /\ last.res = "TransportError"
    /\ last.log = <<Access("send", "HWRST", <<>>, FALSE)>>

-----------------------------------------------------------------------------
(* Capability parsing: each parse reads the GVD blob from the device and    *)
(* computes the capabilities from it and from the product id.  The log      *)
(* keeps the parses made so far, oldest first.                              *)

\* the parses followed on one device
MaxParses == 2

\* a chip id byte that is neither of the two known ones
UnknownChipId == 7

\* the GVD bytes a device may report
CapGvds ==
    { [active_projector |-> projector, rgb_sensor |-> 0, imu_sensor |-> imu,
       imu_acc_chip_id |-> chip, fisheye_sensor_lb |-> 255, fisheye_sensor_hb |-> 255,
       depth_sensor_type |-> shutter] :
         projector \in {0, 1}, imu \in {0, 1},
         chip \in {UnknownChipId, I2C_IMU_BMI055_ID_ACC, I2C_IMU_BMI085_ID_ACC},
         shutter \in {1, 2} }

\* product ids with and without an entry in the fallback tables
CapPids == {"RS435", "RS435I", "RS455", "RS405"}

\* LOG_WARNING("The IMU sensor is undefined for PID ...")
imu_undefined_warning(g, p) ==
    /\ g.imu_sensor # 0
    /\ g.imu_acc_chip_id \notin {I2C_IMU_BMI055_ID_ACC, I2C_IMU_BMI085_ID_ACC}
    /\ p \notin hid_bmi_055_pid \cup hid_bmi_085_pid

Parsed(g, mask, warned) == [gvd |-> g, mask |-> mask, warned |-> warned]

NoParse == [op |-> "none", opt |-> "", val |-> {}, res |-> "ok", reason |-> "", log |-> <<>>]

InitCaps ==
    /\ last = NoParse
    /\ fw = <<5, 12, 8, 100>>
    /\ pid \in CapPids
    /\ gvd = Gvd(1, 2)
    /\ experimental = FALSE
    /\ registry = Registry
    /\ Quiescent
    /\ hw = InitHw(0)
    /\ hdr = InitHdr

\* one call of parse_device_capabilities: get_gvd answers g, or fails in transport
parse_device_capabilities_call(g, ok) ==
    /\ Len(last.log) < MaxParses
    /\ last' = IF ok
               THEN [op |-> "parse", opt |-> "", val |-> parse_device_capabilities(g, pid),
                     res |-> "ok",
                     reason |-> IF imu_undefined_warning(g, pid)
                                THEN "The IMU sensor is undefined" ELSE "",
                     log |-> Append(last.log,
                                    Parsed(g, parse_device_capabilities(g, pid),
                                           imu_undefined_warning(g, pid)))]
               ELSE [op |-> "parse", opt |-> "", val |-> {}, res |-> "TransportError",
                     reason |-> "", log |-> last.log]
    /\ UNCHANGED <<cfgVars, hw, hdr, call, lazyVars>>
    /\ UNCHANGED lockVars

NextCaps == \E g \in CapGvds : \E ok \in BOOLEAN : parse_device_capabilities_call(g, ok)

SpecCaps == InitCaps /\ [][NextCaps]_vars

\* the GVD reports an IMU whose chip id byte is not a known one, on a product id that
\* is in neither fallback table
UnrecognizedImu(g) ==
    /\ g.imu_sensor # 0
    /\ g.imu_acc_chip_id = UnknownChipId
    /\ pid \notin {"RS435I", "RS430I", "RS465", "RS455"}

\* C21: when the GVD reports an IMU whose chip id is not recognized (neither a known
\* chip id byte nor a product id of the fallback tables) the parse does not fail: it
\* emits a diagnostic and returns a mask in which the IMU capability is unset.
C21_UnrecognizedImuLeavesImuUnset ==
    \A k \in DOMAIN last.log :
       UnrecognizedImu(last.log[k].gvd) =>
          /\ last.log[k].warned
          /\ "CAP_IMU_SENSOR" \notin last.log[k].mask

\* a parse of such a GVD returned: the diagnostic was emitted, no chip capability is
\* set, and the IMU capability is set
C21_ImuSetWithoutChip ==
    /\ last.op = "parse"
    /\ last.res = "ok"
    /\ last.reason = "The IMU sensor is undefined"
    /\ UnrecognizedImu(last.log[Len(last.log)].gvd)
    /\ "CAP_IMU_SENSOR" \in last.val
    /\ last.val \cap {"CAP_BMI_055", "CAP_BMI_085"} = {}
    /\ "CAP_GLOBAL_SHUTTER" \in last.val

-----------------------------------------------------------------------------
(* Construction, open and the calibration queries of one caller, each call  *)
(* whole: which commands a call sends (its log) and which lazy values it    *)
(* leaves cached.  A cached table is kept as the set of stream resolutions  *)
(* it has an entry for, coded 1 + (1 for resolution 1) + (2 for resolution  *)
(* 2), so that 0 stays "not evaluated" and 1 is the empty table.            *)

Resolutions == {1, 2}
EmptyTable == 1
\* the empty table, a table with resolution 1 only, a table with both
Tables == {EmptyTable, 2, 4}
HasResolution(table, r) == table # 0 /\ BitAnd(table - 1, r) # 0

\* the command each fetching factory sends
FetchOpcode(l) ==
    CASE l = "coefficients_table_raw" -> "GETINTCAL"
      [] l = "color_calib_table_raw" -> "GETINTCAL"
      [] l = "new_calib_table_raw" -> "RECPARAMSGET"

CalibOpcodes == {"GETINTCAL", "RECPARAMSGET"}

Evaluated(C, log, val, ok) == [cache |-> C, log |-> log, val |-> val, ok |-> ok]

\* lazy<T>::operator* on a table, the caches being C: the cached table, or what the
\* factory returns (table when the fetch succeeds)
DerefTable(C, l, table, ok) ==
    IF C[l] # 0 THEN Evaluated(C, <<>>, C[l], TRUE)
    ELSE IF Factory(l) = "empty"
    THEN Evaluated([C EXCEPT ![l] = EmptyTable], <<>>, EmptyTable, TRUE)
    ELSE IF ok
    THEN Evaluated([C EXCEPT ![l] = table], <<Sent(FetchOpcode(l), <<>>, TRUE)>>, table, TRUE)
    ELSE Evaluated(C, <<Sent(FetchOpcode(l), <<>>, FALSE)>>, 0, FALSE)

CalibUnchanged ==
    UNCHANGED <<cfgVars, hw, hdr, call, stack, seen, mutex, calls, fails, fetches,
                advanced, pc, initIdx, owner, depth, inflight, outcome>>

\* a call on the constructed device returns
Answered(op, r, res, which, d) ==
    /\ ready
    /\ cache' = d.cache
    /\ last' = [op |-> op, opt |-> which, val |-> r, res |-> res, reason |-> "",
                log |-> d.log]
    /\ UNCHANGED <<hw_monitor, ready>>
    /\ CalibUnchanged

\* the coefficients table consulted before the new calibration table
get_intrinsics_call_legacy_first(r, newT, ok1, coeffT, ok2) ==
    LET d1 == DerefTable(cache, "coefficients_table_raw", coeffT, ok2)
    IN  IF ~d1.ok THEN Answered("get_intrinsics", r, "TransportError", "", d1)
        ELSE IF HasResolution(d1.val, r) THEN Answered("get_intrinsics", r, "ok", "legacy", d1)
        ELSE LET d2 == DerefTable(d1.cache, "new_calib_table_raw", newT, ok1)
                 d == Evaluated(d2.cache, d1.log \o d2.log, d2.val, d2.ok)
             IN  IF ~d2.ok THEN Answered("get_intrinsics", r, "TransportError", "", d)
                 ELSE IF HasResolution(d2.val, r)
                 THEN Answered("get_intrinsics", r, "ok", "new", d)
                 ELSE Answered("get_intrinsics", r, "unsupported", "", d)
\* ds6_depth_sensor::get_intrinsics for resolution r
get_intrinsics_call(r, newT, ok1, coeffT, ok2) ==
    LET d1 == DerefTable(cache, "new_calib_table_raw", newT, ok1)
    IN  IF ~d1.ok THEN Answered("get_intrinsics", r, "TransportError", "", d1)
        ELSE IF HasResolution(d1.val, r) THEN Answered("get_intrinsics", r, "ok", "new", d1)
        ELSE LET d2 == DerefTable(d1.cache, "coefficients_table_raw", coeffT, ok2)
                 d == Evaluated(d2.cache, d1.log \o d2.log, d2.val, d2.ok)
             IN  IF ~d2.ok THEN Answered("get_intrinsics", r, "TransportError", "", d)
                 ELSE IF HasResolution(d2.val, r)
                 THEN Answered("get_intrinsics", r, "ok", "legacy", d)
                 ELSE Answered("get_intrinsics", r, "unsupported", "", d)

get_color_intrinsics_call(r, colorT, ok) ==
    LET d == DerefTable(cache, "color_calib_table_raw", colorT, ok)
    IN  IF ~d.ok THEN Answered("get_color_intrinsics", r, "TransportError", "", d)
        ELSE IF HasResolution(d.val, r)
        THEN Answered("get_color_intrinsics", r, "ok", "color", d)
        ELSE Answered("get_color_intrinsics", r, "unsupported", "", d)

\* check_calib<coefficients_table>(*_coefficients_table_raw), then the baseline
get_stereo_baseline_mm_call(coeffT, ok, valid) ==
    LET d == DerefTable(cache, "coefficients_table_raw", coeffT, ok)
    IN  IF ~d.ok THEN Answered("get_stereo_baseline_mm", 0, "TransportError", "", d)
        ELSE IF ~valid THEN Answered("get_stereo_baseline_mm", 0, "invalid_value", "", d)
        ELSE Answered("get_stereo_baseline_mm", 0, "ok", "legacy", d)

\* *_left_right_extrinsics: cached, or computed from the coefficients table
get_extrinsics_call(coeffT, ok, valid) ==
    IF cache["left_right_extrinsics"] # 0
    THEN Answered("get_extrinsics", 0, "ok", "cached", Evaluated(cache, <<>>, 1, TRUE))
    ELSE LET d == DerefTable(cache, "coefficients_table_raw", coeffT, ok)
         IN  IF ~d.ok THEN Answered("get_extrinsics", 0, "TransportError", "", d)
             ELSE IF ~valid THEN Answered("get_extrinsics", 0, "invalid_value", "", d)
             ELSE Answered("get_extrinsics", 0, "ok", "legacy",
                           Evaluated([d.cache EXCEPT !["left_right_extrinsics"] = 1],
                                     d.log, 1, TRUE))

InitLog == [k \in DOMAIN InitCommands |-> Sent(InitCommands[k], <<>>, TRUE)]

\* a constructor that reads the coefficients table while it registers the baseline
init_call_fetching ==
    /\ ~ready
    /\ ready' = TRUE
    /\ hw_monitor' = TRUE
    /\ cache' = [cache EXCEPT !["coefficients_table_raw"] = 4]
    /\ last' = [op |-> "init", opt |-> "", val |-> 0, res |-> "ok", reason |-> "",
                log |-> Append(InitLog, Sent("GETINTCAL", <<>>, TRUE))]
    /\ CalibUnchanged
\* ds6_device::init: the lazy values are given their factories, the commands of the
\* grouped block are sent
init_call ==
    /\ ~ready
    /\ ready' = TRUE
    /\ hw_monitor' = TRUE
    /\ UNCHANGED cache
    /\ last' = [op |-> "init", opt |-> "", val |-> 0, res |-> "ok", reason |-> "",
                log |-> InitLog]
    /\ CalibUnchanged

\* ds6_depth_sensor::open: the depth units, the streams, the HDR re-assert
open_call ==
    /\ ready
    /\ UNCHANGED cache
    /\ last' = [op |-> "open", opt |-> "", val |-> 0, res |-> "ok", reason |-> "",
                log |-> (IF depth_units_from_firmware
                         THEN <<Sent("DEPTH_UNITS", <<>>, TRUE)>> ELSE <<>>)
                        \o (IF hdr_to_restore
                            THEN <<Sent("HDR_ENABLED", <<>>, TRUE)>> ELSE <<>>)]
    /\ UNCHANGED <<hw_monitor, ready>>
    /\ CalibUnchanged

InitCalib ==
    /\ \E d \in LazyDevices : IsDevice(d)
    /\ registry = Registry
    /\ hw = InitHw(0)
    /\ \E e \in (IF hdr_registered THEN BOOLEAN ELSE {FALSE}) :
          hdr = [InitHdr EXCEPT !.enabled = e]
    /\ last = NoCall
    /\ call = NoCalls
    /\ LazyFresh
    /\ advanced \in BOOLEAN
    /\ hw_monitor = FALSE
    /\ ready = FALSE
    /\ pc = [t \in Threads |-> "idle"]
    /\ initIdx = 0
    /\ owner = 0
    /\ depth = 0
    /\ inflight = {}
    /\ outcome = [t \in Threads |-> "none"]

NextCalib ==
    \/ init_call
    \/ open_call
    \/ \E r \in Resolutions : \E newT, coeffT \in Tables : \E ok1, ok2 \in BOOLEAN :
          get_intrinsics_call(r, newT, ok1, coeffT, ok2)
    \/ \E r \in Resolutions : \E colorT \in Tables : \E ok \in BOOLEAN :
          get_color_intrinsics_call(r, colorT, ok)
    \/ \E coeffT \in Tables : \E ok, valid \in BOOLEAN :
          get_stereo_baseline_mm_call(coeffT, ok, valid)
    \/ \E coeffT \in Tables : \E ok, valid \in BOOLEAN :
          get_extrinsics_call(coeffT, ok, valid)

SpecCalib == InitCalib /\ [][NextCalib]_vars

SentIn(log, opcode) == \E k \in DOMAIN log : log[k].reg = opcode
NewTable == cache'["new_calib_table_raw"]

\* C22: the intrinsics of a resolution are looked up in the new calibration table
\* first and come from it when it has the resolution; the coefficients table is
\* evaluated and used only when the new table does not have the resolution, which
\* includes the empty table that an old firmware gives without a command being sent.
C22_NewTableBeforeLegacy ==
    [][last'.op = "get_intrinsics" =>
          /\ HasResolution(NewTable, last'.val) =>
                /\ last'.res = "ok"
                /\ last'.opt = "new"
                /\ ~SentIn(last'.log, "GETINTCAL")
                /\ cache'["coefficients_table_raw"] = cache["coefficients_table_raw"]
          /\ ( \/ last'.opt = "legacy"
               \/ SentIn(last'.log, "GETINTCAL")
               \/ cache'["coefficients_table_raw"] # cache["coefficients_table_raw"] )
             => (NewTable # 0 /\ ~HasResolution(NewTable, last'.val))
          /\ last'.opt = "legacy" =>
                HasResolution(cache'["coefficients_table_raw"], last'.val)
          /\ ~VerGE(fw, <<5, 11, 9, 5>>) =>
                /\ ~SentIn(last'.log, "RECPARAMSGET")
                /\ NewTable = EmptyTable
                /\ last'.res = "ok" => last'.opt = "legacy"
      ]_vars

\* on an old firmware the intrinsics of resolution 2 came from the coefficients table,
\* fetched by this call, the new table being the empty one
C22_Witness ==
    /\ ~VerGE(fw, <<5, 11, 9, 5>>)
    /\ last.op = "get_intrinsics"
    /\ last.val = 2
    /\ last.res = "ok"
    /\ last.opt = "legacy"
    /\ last.log = <<Access("send", "GETINTCAL", <<>>, TRUE)>>
    /\ cache["new_calib_table_raw"] = EmptyTable

NothingCached == \A l \in Lazies : cache[l] = 0
QueryOps == {"get_intrinsics", "get_color_intrinsics", "get_stereo_baseline_mm",
             "get_extrinsics"}

\* C23: construction and open send no calibration-table fetch and evaluate none of
\* the lazy calibration values (coefficients, RGB, new calibration table, left-right
\* extrinsics): they are only given their factories, and a table is first fetched by
\* an intrinsics, extrinsics or baseline query.
C23_NoFetchAtOpen ==
    [][/\ last'.op \in {"init", "open"} =>
             /\ \A k \in DOMAIN last'.log : last'.log[k].reg \notin CalibOpcodes
             /\ cache' = cache
       /\ last'.op = "init" => NothingCached'
       /\ ( \/ cache' # cache
            \/ \E k \in DOMAIN last'.log : last'.log[k].reg \in CalibOpcodes )
          => last'.op \in QueryOps
      ]_vars

\* the device was constructed and opened, with commands sent by open, and no lazy
\* value is evaluated yet
C23_Witness ==
    /\ ready
    /\ last.op = "open"
    /\ Len(last.log) > 0
    /\ NothingCached

-----------------------------------------------------------------------------
(* Frame metadata: the parsers init registers on the depth sensor, and the  *)
(* decoding of the metadata of a frame on the frame-delivery path.  A blob  *)
(* is a sequence of cells, one cell per member; the parsers themselves      *)
(* (make_attribute_parser, make_uvc_header_parser, ...) are library code.   *)

\* the longest metadata blob a frame brings
MaxBlob == 22

\* where the blocks start: the uvc header, then metadata_raw::mode with the blocks of
\* md_depth_y_normal_mode
md_layout ==
    [uvc_header |-> 0, intel_capture_timing |-> 1, intel_capture_stats |-> 3,
     intel_depth_control |-> 4, intel_configuration |-> 15]

\* the place of a member in its block
md_member ==
    [timestamp |-> 0,
     frame_counter |-> 0, sensor_timestamp |-> 1,
     white_balance |-> 0,
     manual_gain |-> 0, manual_exposure |-> 1, auto_exposure_mode |-> 2,
     laser_power |-> 3, emitterMode |-> 4, exposure_priority |-> 5,
     exposure_roi_left |-> 6, exposure_roi_right |-> 7, exposure_roi_top |-> 8,
     exposure_roi_bottom |-> 9, ledPower |-> 10,
     hw_type |-> 0, sku_id |-> 1, format |-> 2, width |-> 3, height |-> 4,
     gpioInputData |-> 5, sub_preset_info |-> 6]

\* the modifiers a parser is given
NoModifier == [kind |-> "none", mask |-> 0, shift |-> 0]
\* param == 1 ? 1 : 0
IsOneModifier == [kind |-> "is_one", mask |-> 0, shift |-> 0]
\* (param & mask) >> shift
BitfieldModifier(bits) == [kind |-> "bitfield", mask |-> bits[1], shift |-> bits[2]]

make_uvc_header_parser(member) ==
    [kind |-> "attribute", offset |-> md_layout.uvc_header + md_member[member],
     modifier |-> NoModifier]

make_attribute_parser(member, md_prop_offset, modifier) ==
    [kind |-> "attribute", offset |-> md_prop_offset + md_member[member],
     modifier |-> modifier]

\* the frame's timestamp less the offset the metadata holds
make_rs400_sensor_ts_parser(frame_ts_parser, sensor_ts_parser) ==
    [kind |-> "sensor_ts", offset |-> sensor_ts_parser.offset,
     modifier |-> NoModifier]

\* computed from the frames' timing, with no offset into the blob
ds5_md_attribute_actual_fps ==
    [kind |-> "actual_fps", offset |-> 0, modifier |-> NoModifier]

\* md_configuration's SUB_PRESET_BIT_MASK_* and SUB_PRESET_BIT_OFFSET_* of the
\* sequence size, the sequence id and the sequence name, as <<mask, offset>>: the
\* values are the library's, so each of these sets of values is taken in turn
SubPresetBits ==
    { [size |-> <<48, 4>>, id |-> <<192, 6>>, name |-> <<15, 0>>],
      [size |-> <<3, 4>>, id |-> <<3, 6>>, name |-> <<15, 0>>],
      [size |-> <<112, 4>>, id |-> <<128, 7>>, name |-> <<15, 0>>] }

\* every block's members registered at the capture timing block's offset
metadata_parsers_one_offset(bits) ==
    LET at == md_layout.intel_capture_timing
        attr(member) == make_attribute_parser(member, at, NoModifier)
    IN  [f \in {"FRAME_TIMESTAMP", "FRAME_COUNTER", "SENSOR_TIMESTAMP", "WHITE_BALANCE",
                "GAIN_LEVEL", "ACTUAL_EXPOSURE", "AUTO_EXPOSURE", "FRAME_LASER_POWER",
                "FRAME_LASER_POWER_MODE", "EXPOSURE_PRIORITY", "EXPOSURE_ROI_LEFT",
                "EXPOSURE_ROI_RIGHT", "EXPOSURE_ROI_TOP", "EXPOSURE_ROI_BOTTOM",
                "FRAME_EMITTER_MODE", "FRAME_LED_POWER", "HW_TYPE", "SKU_ID", "FORMAT",
                "WIDTH", "HEIGHT", "ACTUAL_FPS"} |->
            CASE f = "FRAME_TIMESTAMP" -> make_uvc_header_parser("timestamp")
              [] f = "ACTUAL_FPS" -> ds5_md_attribute_actual_fps
              [] f = "WHITE_BALANCE" -> attr("white_balance")
              [] f = "GAIN_LEVEL" -> attr("manual_gain")
              [] f = "HW_TYPE" -> attr("hw_type")
              [] OTHER -> attr("sensor_timestamp")]

\* the metadata parsers init registers on the depth sensor, by field
metadata_parsers(bits) ==
    LET timing == md_layout.intel_capture_timing
        stats == md_layout.intel_capture_stats
        control == md_layout.intel_depth_control
        config == md_layout.intel_configuration
        always ==
            [FRAME_TIMESTAMP |-> make_uvc_header_parser("timestamp"),
             FRAME_COUNTER |-> make_attribute_parser("frame_counter", timing, NoModifier),
             SENSOR_TIMESTAMP |->
                 make_rs400_sensor_ts_parser(
                     make_uvc_header_parser("timestamp"),
                     make_attribute_parser("sensor_timestamp", timing, NoModifier)),
             WHITE_BALANCE |-> make_attribute_parser("white_balance", stats, NoModifier),
             GAIN_LEVEL |-> make_attribute_parser("manual_gain", control, NoModifier),
             ACTUAL_EXPOSURE |->
                 make_attribute_parser("manual_exposure", control, NoModifier),
             AUTO_EXPOSURE |->
                 make_attribute_parser("auto_exposure_mode", control, NoModifier),
             FRAME_LASER_POWER |->
                 make_attribute_parser("laser_power", control, NoModifier),
             FRAME_LASER_POWER_MODE |->
                 make_attribute_parser("emitterMode", control, IsOneModifier),
             EXPOSURE_PRIORITY |->
                 make_attribute_parser("exposure_priority", control, NoModifier),
             EXPOSURE_ROI_LEFT |->
                 make_attribute_parser("exposure_roi_left", control, NoModifier),
             EXPOSURE_ROI_RIGHT |->
                 make_attribute_parser("exposure_roi_right", control, NoModifier),
             EXPOSURE_ROI_TOP |->
                 make_attribute_parser("exposure_roi_top", control, NoModifier),
             EXPOSURE_ROI_BOTTOM |->
                 make_attribute_parser("exposure_roi_bottom", control, NoModifier),
             FRAME_EMITTER_MODE |->
                 make_attribute_parser("emitterMode", control, NoModifier),
             FRAME_LED_POWER |-> make_attribute_parser("ledPower", control, NoModifier),
             HW_TYPE |-> make_attribute_parser("hw_type", config, NoModifier),
             SKU_ID |-> make_attribute_parser("sku_id", config, NoModifier),
             FORMAT |-> make_attribute_parser("format", config, NoModifier),
             WIDTH |-> make_attribute_parser("width", config, NoModifier),
             HEIGHT |-> make_attribute_parser("height", config, NoModifier),
             ACTUAL_FPS |-> ds5_md_attribute_actual_fps]
        gpio ==
            IF VerGE(fw, <<5, 12, 7, 0>>)
            THEN [GPIO_INPUT_DATA |->
                      make_attribute_parser("gpioInputData", config, NoModifier)]
            ELSE <<>>
        sequence ==
            IF VerGE(fw, hdr_firmware_version)
            THEN [SEQUENCE_SIZE |->
                      make_attribute_parser("sub_preset_info", config,
                                            BitfieldModifier(bits.size)),
                  SEQUENCE_ID |->
                      make_attribute_parser("sub_preset_info", config,
                                            BitfieldModifier(bits.id)),
                  SEQUENCE_NAME |->
                      make_attribute_parser("sub_preset_info", config,
                                            BitfieldModifier(bits.name))]
            ELSE <<>>
    IN  always @@ gpio @@ sequence

\* the value shifted before the mask is applied
bitfield_modifier_shift_first(param, mask, shift) == BitAnd(param \div (2 ^ shift), mask)

\* (param & mask) >> shift
bitfield_modifier(param, mask, shift) == BitAnd(param, mask) \div (2 ^ shift)

apply_modifier(m, param) ==
    CASE m.kind = "is_one" -> IF param = 1 THEN 1 ELSE 0
      [] m.kind = "bitfield" -> bitfield_modifier(param, m.mask, m.shift)
      [] OTHER -> param

Absent == [present |-> FALSE, val |-> 0]
Decoded(v) == [present |-> TRUE, val |-> v]

\* the member at a byte offset of the blob
Cell(blob, offset) == blob[offset + 1]
InBlob(blob, offset) == offset < Len(blob)

\* what a parser finds in a frame's blob
get_frame_metadata(p, blob, fps) ==
    CASE p.kind = "actual_fps" -> Decoded(fps)
      [] p.kind = "sensor_ts" ->
            IF InBlob(blob, p.offset) /\ InBlob(blob, md_layout.uvc_header)
            THEN Decoded(Cell(blob, md_layout.uvc_header) - Cell(blob, p.offset))
            ELSE Absent
      [] OTHER ->
            IF InBlob(blob, p.offset)
            THEN Decoded(apply_modifier(p.modifier, Cell(blob, p.offset)))
            ELSE Absent

\* the metadata record of a frame: every registered field, decoded or absent
decode_frame(parsers, blob, fps) ==
    [f \in DOMAIN parsers |-> get_frame_metadata(parsers[f], blob, fps)]

\* the blobs frames bring: cell k of a blob of seed s holds s + k
BlobSeeds == {0, 90, 250}
FrameBlob(seed, len) == [k \in 1..len |-> (seed + k) % 256]
FpsValues == {0, 30}

NoFrame == [NoCall EXCEPT !.val = [f \in {} |-> Absent]]

\* the frame is decoded once the firmware session is free
frame_callback_waiting(seed, len, fps) ==
    /\ ready
    /\ owner = 0
    /\ hw' = [metadata_blob |-> FrameBlob(seed, len)]
    /\ last' = [op |-> "frame", opt |-> "", res |-> "ok", reason |-> "", log |-> <<>>,
                val |-> decode_frame(registry, FrameBlob(seed, len), fps)]
    /\ UNCHANGED <<cfgVars, hdr, call, lockVars, lazyVars>>

\* a frame arrives and its metadata is decoded from its blob; the depth sensor's
\* metadata modifier copies the depth units open has read
frame_callback(seed, len, fps) ==
    /\ ready
    /\ hw' = [metadata_blob |-> FrameBlob(seed, len)]
    /\ last' = [op |-> "frame", opt |-> "", res |-> "ok", reason |-> "", log |-> <<>>,
                val |-> decode_frame(registry, FrameBlob(seed, len), fps)]
    /\ UNCHANGED <<cfgVars, hdr, call, lockVars, lazyVars>>

MetadataVersions ==
    {<<5, 13, 0, 50>>, <<5, 12, 8, 100>>, <<5, 12, 8, 99>>, <<5, 12, 7, 0>>, <<5, 12, 1, 0>>}

\* a constructed and opened device that streams
InitMetadata ==
    /\ \E v \in MetadataVersions : IsDevice(Device(v, Gvd(1, 2), "RS435"))
    /\ \E bits \in SubPresetBits : registry = metadata_parsers(bits)
    /\ hw = [metadata_blob |-> <<>>]
    /\ hdr = InitHdr
    /\ last = NoFrame
    /\ call = NoCalls
    /\ LazyFresh
    /\ advanced = FALSE
    /\ hw_monitor = TRUE
    /\ ready = TRUE
    /\ pc = [t \in Threads |-> "idle"]
    /\ initIdx = 0
    /\ owner = 0
    /\ depth = 0
    /\ inflight = {}
    /\ outcome = [t \in Threads |-> "none"]

NextMetadata ==
    \E seed \in BlobSeeds : \E len \in 0..MaxBlob : \E fps \in FpsValues :
        frame_callback(seed, len, fps)

SpecMetadata == InitMetadata /\ [][NextMetadata]_vars

FrameDecoded == last.op = "frame"
Blob == hw.metadata_blob

\* C24: for every registered metadata field read at an offset, a frame whose blob is
\* shorter than the offset gives the field absent and the decoding does not fail,
\* and every field whose offset lies inside the blob is decoded: a blob that ends
\* after the capture statistics gives the frame counter and the white balance and
\* has the gain and the hardware type absent.
C24_ShortBlobFieldAbsent ==
    FrameDecoded =>
        /\ last.res = "ok"
        /\ DOMAIN last.val = DOMAIN registry
        /\ \A f \in DOMAIN registry :
              registry[f].kind # "actual_fps" =>
                  /\ Len(Blob) <= registry[f].offset => ~last.val[f].present
                  /\ Len(Blob) > registry[f].offset => last.val[f].present
        /\ Len(Blob) = md_layout.intel_depth_control =>
              /\ last.val["FRAME_COUNTER"] = Decoded(Cell(Blob, md_layout.intel_capture_timing))
              /\ last.val["WHITE_BALANCE"] = Decoded(Cell(Blob, md_layout.intel_capture_stats))
              /\ last.val["GAIN_LEVEL"] = Absent
              /\ last.val["HW_TYPE"] = Absent

\* a frame whose blob ends inside the depth control block: the gain is decoded, the
\* led power and the configuration fields are absent
C24_Witness ==
    /\ FrameDecoded
    /\ Len(Blob) = md_layout.intel_depth_control + 1
    /\ last.val["GAIN_LEVEL"].present
    /\ ~last.val["FRAME_LED_POWER"].present
    /\ ~last.val["WIDTH"].present
    /\ last.val["FRAME_COUNTER"].present

BitfieldFields == {f \in DOMAIN registry : registry[f].modifier.kind = "bitfield"}
RawOf(f) == Cell(Blob, registry[f].offset)

\* C25 as stated: a bitfield parser with mask 0x3 and shift 4 decodes the raw value
\* 112 (0b0111_0000) as 7.
C25_MaskThreeShiftFourGivesSeven ==
    FrameDecoded =>
        \A f \in BitfieldFields :
            ( /\ last.val[f].present
              /\ RawOf(f) = 112
              /\ registry[f].modifier.mask = 3
              /\ registry[f].modifier.shift = 4 )
            => last.val[f].val = 7

\* C25: a bitfield parser decodes (raw & mask) >> shift, the mask being applied to
\* the raw value in place, so the decoded value is at most mask >> shift: the raw
\* value 112 (0b0111_0000) decodes as 0 with mask 0x3 and shift 4, as 3 with mask
\* 0x30 and shift 4, and as 7 with mask 0x70 and shift 4.
C25_MaskInPlaceThenShift ==
    FrameDecoded =>
        \A f \in BitfieldFields :
            last.val[f].present =>
                LET m == registry[f].modifier
                    v == last.val[f].val
                IN  /\ v <= m.mask \div (2 ^ m.shift)
                    /\ v * (2 ^ m.shift) <= RawOf(f)
                    /\ (RawOf(f) = 112 /\ m.shift = 4) =>
                          /\ m.mask = 3 => v = 0
                          /\ m.mask = 48 => v = 3
                          /\ m.mask = 112 => v = 7

\* the raw value 112 was decoded by a parser of mask 0x3 and shift 4, as 0
C25_Witness ==
    /\ FrameDecoded
    /\ "SEQUENCE_SIZE" \in DOMAIN registry
    /\ InBlob(Blob, registry["SEQUENCE_SIZE"].offset)
    /\ RawOf("SEQUENCE_SIZE") = 112
    /\ registry["SEQUENCE_SIZE"].modifier.mask = 3
    /\ registry["SEQUENCE_SIZE"].modifier.shift = 4
    /\ last.val["SEQUENCE_SIZE"] = Decoded(0)

-----------------------------------------------------------------------------
(* Frames arriving while threads send commands to the firmware *)

FrameLens == {0, md_layout.intel_depth_control, MaxBlob}

InitFrames ==
    /\ InitMetadata
    /\ fw = hdr_firmware_version

NextFrames ==
    \/ \E len \in FrameLens : \E fps \in FpsValues : frame_callback(90, len, fps)
    \/ \E t \in Threads : send_receive_raw_data(t)
    \/ \E t \in Threads : \E ok \in BOOLEAN : send_receive_raw_data_done(t, ok)

SpecFrames == InitFrames /\ [][NextFrames]_vars

FrameStep == last' # last \/ hw' # hw
CommandInFlight == owner # 0 /\ inflight # {}

\* C26: the decoding of a frame's metadata sends no firmware command and does not
\* take or wait for the firmware session: a frame can be decoded in every state,
\* also while a thread holds the session with its command in flight, and the
\* decoding leaves the session, the commands in flight and every thread where
\* they are.
C26_DecodeNeverWaits ==
    /\ [](\A len \in FrameLens : \A fps \in FpsValues : ENABLED frame_callback(90, len, fps))
    /\ [][FrameStep => UNCHANGED <<owner, depth, inflight, pc, outcome>>]_vars

\* a thread holds the session with its command in flight, a frame has been decoded
\* and the next one, with another blob, can be decoded now
C26_Witness ==
    /\ CommandInFlight
    /\ FrameDecoded
    /\ Len(Blob) = MaxBlob
    /\ ENABLED (frame_callback(90, 0, 30) /\ FrameStep)

-----------------------------------------------------------------------------
(* firmware_version: the comparison the gates of init are made of *)

VersionComponents == {0, 1}
Versions == {<<a, b, c, d>> : a \in VersionComponents, b \in VersionComponents,
                              c \in VersionComponents, d \in VersionComponents}

NoCompare ==
    [NoCall EXCEPT !.val = [v |-> <<0, 0, 0, 0>>, experimental |-> FALSE,
                            ge |-> TRUE, le |-> TRUE]]

\* _fw_version >= other, and other >= _fw_version
fw_version_ge_call(other, otherExperimental) ==
    /\ last' = [op |-> "ge", opt |-> "", res |-> "ok", reason |-> "", log |-> <<>>,
                val |-> [v |-> other, experimental |-> otherExperimental,
                         ge |-> VerGE(fw, other), le |-> VerGE(other, fw)]]
    /\ UNCHANGED <<cfgVars, hw, hdr, call, lockVars, lazyVars>>

InitVersions ==
    /\ fw \in Versions
    /\ experimental \in BOOLEAN
    /\ gvd = Gvd(1, 2)
    /\ pid = "RS435"
    /\ registry = Registry
    /\ hw = InitHw(0)
    /\ hdr = InitHdr
    /\ last = NoCompare
    /\ Quiescent

NextVersions ==
    \E other \in Versions : \E e \in BOOLEAN : fw_version_ge_call(other, e)

SpecVersions == InitVersions /\ [][NextVersions]_vars

\* the tuples compared from the first component on
RECURSIVE LexGE(_, _, _)
LexGE(a, b, i) ==
    IF i > Len(a) THEN TRUE
    ELSE IF a[i] # b[i] THEN a[i] > b[i]
    ELSE LexGE(a, b, i + 1)

\* C28: v1 >= v2 holds exactly when the tuple (major, minor, patch, build) of v1 is
\* lexicographically greater than or equal to the tuple of v2, whatever the
\* experimental flag of either version, and the relation is a total order:
\* reflexive, total, antisymmetric on the tuples and transitive.
C28_LexicographicTotalOrder ==
    last.op = "ge" =>
        LET a == fw
            b == last.val.v
        IN  /\ last.val.ge <=> LexGE(a, b, 1)
            /\ last.val.le <=> LexGE(b, a, 1)
            /\ last.val.ge \/ last.val.le
            /\ (last.val.ge /\ last.val.le) => a = b
            /\ a = b => last.val.ge
            /\ \A c \in Versions : (last.val.ge /\ VerGE(b, c)) => VerGE(a, c)

\* an experimental version of a lower major compared with a production version of
\* a higher one, all other components the other way round
C28_Witness ==
    /\ last.op = "ge"
    /\ experimental
    /\ ~last.val.experimental
    /\ fw = <<0, 1, 1, 1>>
    /\ last.val.v = <<1, 0, 0, 0>>
    /\ ~last.val.ge
    /\ last.val.le

-----------------------------------------------------------------------------
(* Claims about sequences of calls through the registry *)

\* init registers both emitter options gated, each blocked by the other's control
EmittersMutuallyGated ==
    VerGE(fw, emitter_always_on_firmware_version) /\ HasCaps(emitter_mask)

\* C29: on a device where Emitter always on and Emitter on/off are both registered
\* as gated options blocking each other, with both at 0 after construction, the two
\* controls are never both nonzero after any sequence of calls made one after the
\* other through the registry, transfers that fail included.
C29_EmitterOptionsNeverBothOn ==
    EmittersMutuallyGated => ~(hw.ALWAYS_ON # 0 /\ hw.ON_OFF # 0)

\* emitter on/off is on, and the set of emitter always on that came after it was
\* refused
C29_Witness ==
    /\ EmittersMutuallyGated
    /\ registry["EMITTER_ALWAYS_ON"].kind = "gated"
    /\ registry["EMITTER_ON_OFF"].kind = "gated"
    /\ hw.ON_OFF = 1
    /\ hw.ALWAYS_ON = 0
    /\ last.op = "set"
    /\ last.opt = "EMITTER_ALWAYS_ON"
    /\ last.val = 1
    /\ last.res = "PreconditionBlocked"
    /\ last.reason = "Emitter always ON cannot be set while Emitter ON/OFF is enabled"

\* C30: on a device with the HDR options, HDR and auto-exposure both off after
\* construction, the HDR enabled flag and the auto-exposure flag are never both
\* nonzero after any sequence of sets of the registered options, whichever of the
\* two is turned on first.
C30_HdrAndAutoExposureNeverBothOn ==
    hdr_registered => ~(hdr.enabled /\ hw.AE # 0)

\* auto-exposure was on when HDR enabled was set to 1, and the set went through
C30_HdrEnabledOverAutoExposure ==
    /\ hdr_registered
    /\ last.op = "set"
    /\ last.opt = "HDR_ENABLED"
    /\ last.val = 1
    /\ last.res = "ok"
    /\ hdr.enabled
    /\ hw.AE = 1

-----------------------------------------------------------------------------
(* Claims about the registry as a whole *)

\* the options that can be reached through the registry: the registered ones and
\* the controls the registered gated options wrap
Reachable == {registry[id] : id \in DOMAIN registry} \cup
             {ControlOf(registry[id]) : id \in DOMAIN registry}

\* C31: on every device, every blocker of a registered gated option is a non-null
\* option that can itself be reached through the registry: HDR enabled is a blocker
\* only when the HDR options are registered, and emitter always on is a blocker of
\* Emitter on/off only when Emitter always on is registered.
C31_BlockersRegistered ==
    /\ \A id \in DOMAIN registry :
          \A b \in BlockerOptions(registry[id]) : b # NullOpt /\ b \in Reachable
    /\ (\E id \in DOMAIN registry :
           HdrOption("HDR_ENABLED", hdr_enable_range) \in BlockerOptions(registry[id]))
       => HdrOptionIds \subseteq DOMAIN registry
    /\ ( /\ "EMITTER_ON_OFF" \in DOMAIN registry
         /\ emitter_always_on_opt \in BlockerOptions(registry["EMITTER_ON_OFF"]) )
       => "EMITTER_ALWAYS_ON" \in DOMAIN registry

\* Emitter on/off is gated by HDR enabled and by emitter always on, and a set of it
\* was refused because emitter always on, set through the registry, reads 1
C31_Witness ==
    /\ "EMITTER_ON_OFF" \in DOMAIN registry
    /\ BlockerOptions(registry["EMITTER_ON_OFF"]) =
          {HdrOption("HDR_ENABLED", hdr_enable_range), emitter_always_on_opt}
    /\ last.op = "set"
    /\ last.opt = "EMITTER_ON_OFF"
    /\ last.res = "PreconditionBlocked"
    /\ last.reason = "Emitter ON/OFF cannot be set while Emitter always ON is enabled"
    /\ hw.ALWAYS_ON = 1

-----------------------------------------------------------------------------
(* Claims about the capability mask *)

ChipCaps == {"CAP_BMI_055", "CAP_BMI_085"}

\* C33: for every GVD blob and product id, the parsed capability mask never holds
\* both the rolling and the global shutter, never holds both IMU chip kinds, holds
\* a chip kind only together with the IMU capability, and a chip id byte that is
\* recognized decides the chip kind whatever the product id's fallback table says.
C33_MaskConsistent ==
    \A k \in DOMAIN last.log :
        LET g == last.log[k].gvd
            mask == last.log[k].mask
        IN  /\ ~({"CAP_ROLLING_SHUTTER", "CAP_GLOBAL_SHUTTER"} \subseteq mask)
            /\ ~(ChipCaps \subseteq mask)
            /\ (mask \cap ChipCaps # {}) => "CAP_IMU_SENSOR" \in mask
            /\ (g.imu_sensor # 0 /\ g.imu_acc_chip_id = I2C_IMU_BMI055_ID_ACC)
                  => mask \cap ChipCaps = {"CAP_BMI_055"}
            /\ (g.imu_sensor # 0 /\ g.imu_acc_chip_id = I2C_IMU_BMI085_ID_ACC)
                  => mask \cap ChipCaps = {"CAP_BMI_085"}

\* a product id of the BMI085 table whose GVD has the chip id byte of the BMI055:
\* the mask has the BMI055
C33_Witness ==
    /\ pid \in hid_bmi_085_pid
    /\ last.op = "parse"
    /\ last.res = "ok"
    /\ Len(last.log) > 0
    /\ last.log[Len(last.log)].gvd.imu_sensor = 1
    /\ last.log[Len(last.log)].gvd.imu_acc_chip_id = I2C_IMU_BMI055_ID_ACC
    /\ last.val \cap ChipCaps = {"CAP_BMI_055"}
    /\ "CAP_IMU_SENSOR" \in last.val

HdrMetadataFields == {"SEQUENCE_SIZE", "SEQUENCE_ID", "SEQUENCE_NAME"}

\* C32: for every firmware version, the HDR metadata fields (sequence size,
\* sequence id, sequence name) are registered exactly when the HDR options
\* (sequence size, sequence id, sequence name, HDR enabled) are registered, all of
\* them or none.
C32_HdrMetadataWithHdrOptions ==
    /\ (HdrMetadataFields \subseteq DOMAIN registry) <=> (HdrOptionIds \subseteq DOMAIN Registry)
    /\ (HdrMetadataFields \cap DOMAIN registry = {}) <=> (HdrOptionIds \cap DOMAIN Registry = {})

\* a frame of a device with the HDR options brought its sequence id
C32_Witness ==
    /\ HdrOptionIds \subseteq DOMAIN Registry
    /\ FrameDecoded
    /\ "SEQUENCE_ID" \in DOMAIN last.val
    /\ last.val["SEQUENCE_ID"].present
    /\ last.val["SEQUENCE_SIZE"].present
    /\ last.val["SEQUENCE_NAME"].present

-----------------------------------------------------------------------------
(* The inter-camera sync mode option *)

SyncVersions ==
    { <<5, 9, 15, 0>>, <<5, 9, 15, 1>>, <<5, 10, 4, 0>>, <<5, 12, 4, 0>>,
      <<5, 12, 12, 99>>, <<5, 12, 12, 100>> }

SyncDevices ==
    { Device(v, Gvd(1, shutter), p) :
        v \in SyncVersions, shutter \in {1, 2}, p \in {"RS435", "RS405"} }

SyncIds == {"INTER_CAM_SYNC_MODE", "ENABLE_AUTO_EXPOSURE", "EXPOSURE", "GAIN",
            "HDR_ENABLED", "EMITTER_ON_OFF", "EMITTER_ALWAYS_ON"}

\* sensor.get_option(id): the registered option, or not supported
get_option_call(id) ==
    /\ last' = [op |-> "get_option", opt |-> id, reason |-> "", log |-> <<>>,
                res |-> IF id \in DOMAIN registry THEN "ok" ELSE "NotSupported",
                val |-> IF id \in DOMAIN registry /\ registry[id].kind = "sync"
                        THEN registry[id].ver ELSE 0]
    /\ UNCHANGED <<cfgVars, hw, hdr, call, lockVars, lazyVars>>

InitSync ==
    /\ \E d \in SyncDevices : IsDevice(d)
    /\ registry = Registry
    /\ Quiescent
    /\ hw = InitHw(0)
    /\ hdr = InitHdr
    /\ last = NoCall

NextSync == \E id \in SyncIds : get_option_call(id)

SpecSync == InitSync /\ [][NextSync]_vars

GlobalShutter == gvd.depth_sensor_type = 2

\* the tier of the sync mode option the device is to have, 0 for none
SyncTier ==
    IF pid = "RS405" \/ ~VerGE(fw, <<5, 10, 4, 0>>) THEN 0
    ELSE IF VerGE(fw, <<5, 12, 12, 100>>) /\ GlobalShutter THEN 3
    ELSE IF VerGE(fw, <<5, 12, 4, 0>>) /\ GlobalShutter THEN 2
    ELSE 1

\* C34: on every device at most one inter-camera sync mode option is registered
\* and it is the one of the highest tier whose conditions hold (3, then 2, then
\* 1); none is registered on the product excluded from hardware sync, nor on a
\* firmware below the version from which the capabilities are parsed, the lowest
\* sync threshold being met or not.
C34_SyncModeHighestTier ==
    /\ ("INTER_CAM_SYNC_MODE" \in DOMAIN registry) <=> (SyncTier > 0)
    /\ "INTER_CAM_SYNC_MODE" \in DOMAIN registry =>
          registry["INTER_CAM_SYNC_MODE"] = ExternalSyncMode(SyncTier)
    /\ (last.op = "get_option" /\ last.opt = "INTER_CAM_SYNC_MODE") =>
          /\ last.val = SyncTier
          /\ last.res = "ok" <=> SyncTier > 0

\* the firmware meets the lowest sync threshold but is below the version from
\* which the capabilities are parsed: the option was asked for and is not there
C34_Witness ==
    /\ fw = <<5, 9, 15, 1>>
    /\ pid = "RS435"
    /\ device_capabilities = {}
    /\ last.op = "get_option"
    /\ last.opt = "INTER_CAM_SYNC_MODE"
    /\ last.res = "NotSupported"

=============================================================================
